---- MODULE Spec2Model ----
(***************************************************************************)
(* SmartDocs Insight: the invoice analyzer (analyze_invoice), the batch    *)
(* step of select_files, the metadata export and the preferences file,     *)
(* src/smartdocs-insight/main.py.  Spec is one run of select_files;        *)
(* WindowSpec is the window over several events, started on any stored     *)
(* preferences file; ReorderedSpec selects the same files twice.           *)
(*                                                                         *)
(* Text is a sequence of one-character strings, so that strip, split,      *)
(* upper, replace and the COO/weight pattern are computed character by     *)
(* character as Python computes them.  Five characters outside ASCII are   *)
(* written as tokens: "<bom>" U+FEFF, "<warn>" the warning sign of the     *)
(* alert prefix, "<arrow>" U+2192, "<dash>" U+2013, "<doc>" U+1F4C4.       *)
(*                                                                         *)
(* Weights are held exactly, as integers in units of 10^-5 kg; the binary  *)
(* representation error of Python floats is not modelled, and the inputs   *)
(* keep to that resolution.                                                *)
(***************************************************************************)
EXTENDS Integers, Sequences, FiniteSets, TLC

VARIABLES
    pc,                   \* position of select_files / analyze_invoice
    csv_files,            \* the CSV files of the batch, in selection order
    fi,                   \* number of files the batch loop has finished
    lines,                \* analyze_invoice: rows read from the current file
    ri,                   \* analyze_invoice: number of rows already iterated
    non_eu_items,         \* analyze_invoice locals (main.py 178-183)
    eu_items,
    total_non_eu_weight,
    invoice_reference,
    box5_values,
    missing_coo_alerts,
    weight_value,         \* analyze_invoice: the weight of the last matched row
    ret,                  \* the tuple analyze_invoice returned last
    results,              \* history: the tuples returned so far, one per file
    all_non_eu_items,     \* select_files locals (main.py 1105-1113)
    all_eu_items,
    all_po_numbers,
    all_invoice_numbers,
    total_weight,
    all_missing_coo,
    file_issues,
    message,              \* the formatted message, once built
    exported,             \* run_metadata_export: number of files finished
    metadata,             \* the tuple extract_csv_metadata returned last
    ws_rows,              \* run_metadata_export: the data rows of the worksheet ws
    prefs,                \* the dictionary stored in user_preferences.json
    dark_mode,            \* show_gui: the theme flag of the window
    analyses,             \* history: selections that reached the message
                          \* since the counter was last reset
    written               \* history: the preference writers called so far

vars == <<pc, csv_files, fi, lines, ri, non_eu_items, eu_items,
          total_non_eu_weight, invoice_reference, box5_values,
          missing_coo_alerts, weight_value, ret, results, all_non_eu_items, all_eu_items,
          all_po_numbers, all_invoice_numbers, total_weight, all_missing_coo,
          file_issues, message, exported, metadata, ws_rows, prefs,
          dark_mode, analyses, written>>

(***************************************************************************)
(* Characters and Python's str methods                                     *)
(***************************************************************************)
Digits == <<"0", "1", "2", "3", "4", "5", "6", "7", "8", "9">>

Uppers == <<"A", "B", "C", "D", "E", "F", "G", "H", "I", "J", "K", "L", "M",
            "N", "O", "P", "Q", "R", "S", "T", "U", "V", "W", "X", "Y", "Z">>

Lowers == <<"a", "b", "c", "d", "e", "f", "g", "h", "i", "j", "k", "l", "m",
            "n", "o", "p", "q", "r", "s", "t", "u", "v", "w", "x", "y", "z">>

IndexIn(c, tbl) == CHOOSE i \in 1..Len(tbl) : tbl[i] = c

IsDigit(c) == \E i \in 1..Len(Digits) : Digits[i] = c

IsUpper(c) == \E i \in 1..Len(Uppers) : Uppers[i] = c

IsLower(c) == \E i \in 1..Len(Lowers) : Lowers[i] = c

\* [A-Za-z]
IsAlpha(c) == IsUpper(c) \/ IsLower(c)

\* \s and the characters str.strip() / str.split() treat as whitespace
IsSpace(c) == c \in {" ", "\n", "\t", "\r"}

\* \w
IsWord(c) == IsAlpha(c) \/ IsDigit(c) \/ c = "_"

\* [\d.,]
IsNumChar(c) == IsDigit(c) \/ c = "." \/ c = ","

\* ord(c): the code point, which orders strings in sorted()
Ord(c) ==
    IF c = "\t" THEN 9
    ELSE IF c = "\n" THEN 10
    ELSE IF c = "\r" THEN 13
    ELSE IF c = " " THEN 32
    ELSE IF c = "(" THEN 40
    ELSE IF c = ")" THEN 41
    ELSE IF c = "," THEN 44
    ELSE IF c = "-" THEN 45
    ELSE IF c = "." THEN 46
    ELSE IF c = "/" THEN 47
    ELSE IF IsDigit(c) THEN 47 + IndexIn(c, Digits)
    ELSE IF c = ":" THEN 58
    ELSE IF IsUpper(c) THEN 64 + IndexIn(c, Uppers)
    ELSE IF c = "[" THEN 91
    ELSE IF c = "]" THEN 93
    ELSE IF c = "_" THEN 95
    ELSE IF IsLower(c) THEN 96 + IndexIn(c, Lowers)
    ELSE IF c = "<dash>" THEN 8211
    ELSE IF c = "<arrow>" THEN 8594
    ELSE IF c = "<warn>" THEN 9888
    ELSE IF c = "<bom>" THEN 65279
    ELSE 128196

UpperChar(c) == IF IsLower(c) THEN Uppers[IndexIn(c, Lowers)] ELSE c

\* str.upper()
Upper(s) == [i \in 1..Len(s) |-> UpperChar(s[i])]

\* s[i:] and s[:j] on 1-based positions: the characters from i on / before j
From(s, i) == SubSeq(s, i, Len(s))

\* str.strip()
Strip(s) ==
    LET keep == {i \in 1..Len(s) : ~IsSpace(s[i])}
    IN  IF keep = {} THEN <<>>
        ELSE SubSeq(s, CHOOSE i \in keep : \A j \in keep : i <= j,
                       CHOOSE i \in keep : \A j \in keep : i >= j)

\* str.lstrip(BOM)
LStripBom(s) ==
    LET keep == {i \in 1..Len(s) : s[i] # "<bom>"}
    IN  IF keep = {} THEN <<>>
        ELSE From(s, CHOOSE i \in keep : \A j \in keep : i <= j)

\* str.startswith(p)
StartsWith(s, p) == Len(s) >= Len(p) /\ SubSeq(s, 1, Len(p)) = p

\* c in s, for a single character c
Contains(s, c) == \E i \in 1..Len(s) : s[i] = c

\* the first position of character c in s at or after i, or Len(s)+1
RECURSIVE FindChar(_, _, _)
FindChar(s, c, i) ==
    IF i > Len(s) THEN Len(s) + 1
    ELSE IF s[i] = c THEN i
    ELSE FindChar(s, c, i + 1)

\* str.split(c) for a single character c: every piece, empty ones included
RECURSIVE Split(_, _)
Split(s, c) ==
    LET k == FindChar(s, c, 1)
    IN  IF k > Len(s) THEN <<s>>
        ELSE <<SubSeq(s, 1, k - 1)>> \o Split(From(s, k + 1), c)

\* str.split(c, 1): at most two pieces
Split1(s, c) ==
    LET k == FindChar(s, c, 1)
    IN  IF k > Len(s) THEN <<s>>
        ELSE <<SubSeq(s, 1, k - 1), From(s, k + 1)>>

\* str.split(): the maximal runs of non-whitespace characters
RECURSIVE Words(_)
Words(s) ==
    LET t == Strip(s)
        sp == {i \in 1..Len(t) : IsSpace(t[i])}
    IN  IF t = <<>> THEN <<>>
        ELSE IF sp = {} THEN <<t>>
        ELSE LET k == CHOOSE i \in sp : \A j \in sp : i <= j
             IN  <<SubSeq(t, 1, k - 1)>> \o Words(From(t, k + 1))

\* sep.join(parts)
RECURSIVE Join(_, _)
Join(parts, sep) ==
    IF parts = <<>> THEN <<>>
    ELSE IF Len(parts) = 1 THEN parts[1]
    ELSE parts[1] \o sep \o Join(Tail(parts), sep)

\* str.replace(old, ""): every non-overlapping occurrence removed, left to right
RECURSIVE Remove(_, _)
Remove(s, old) ==
    IF s = <<>> THEN <<>>
    ELSE IF StartsWith(s, old) THEN Remove(From(s, Len(old) + 1), old)
    ELSE <<s[1]>> \o Remove(Tail(s), old)

\* s < t in Python's string order: lexicographic by code point
RECURSIVE StrLess(_, _)
StrLess(s, t) ==
    IF t = <<>> THEN FALSE
    ELSE IF s = <<>> THEN TRUE
    ELSE IF s[1] = t[1] THEN StrLess(Tail(s), Tail(t))
    ELSE Ord(s[1]) < Ord(t[1])

\* sorted(S) for a set S of strings
RECURSIVE Sorted(_)
Sorted(S) ==
    IF S = {} THEN <<>>
    ELSE LET m == CHOOSE x \in S : \A y \in S \ {x} : StrLess(x, y)
         IN  <<m>> \o Sorted(S \ {m})

\* set(xs)
ToSet(xs) == {xs[i] : i \in 1..Len(xs)}

\* str(i) for an integer i >= 0
RECURSIVE IntToStr(_)
IntToStr(i) ==
    IF i < 10 THEN <<Digits[i + 1]>>
    ELSE IntToStr(i \div 10) \o <<Digits[(i % 10) + 1]>>

(***************************************************************************)
(* Literals of the program                                                 *)
(***************************************************************************)
Unknown == <<"U", "n", "k", "n", "o", "w", "n">>

ITEM == <<"I", "T", "E", "M">>

CommaSpace == <<",", " ">>

\* "<warn> Missing COO <arrow> "
MissingCooPrefix ==
    <<"<warn>", " ", "M", "i", "s", "s", "i", "n", "g", " ", "C", "O", "O",
      " ", "<arrow>", " ">>

\* "Error during analysis: "
ErrorPrefix ==
    <<"E", "r", "r", "o", "r", " ", "d", "u", "r", "i", "n", "g", " ", "a",
      "n", "a", "l", "y", "s", "i", "s", ":", " ">>

EU_CODES == {
    <<"A", "T">>, <<"B", "E">>, <<"B", "G">>, <<"H", "R">>, <<"C", "Y">>, <<"C", "Z">>,
    <<"D", "K">>, <<"E", "E">>, <<"F", "I">>, <<"F", "R">>, <<"D", "E">>, <<"G", "R">>,
    <<"H", "U">>, <<"I", "E">>, <<"I", "T">>, <<"L", "V">>, <<"L", "T">>, <<"L", "U">>,
    <<"M", "T">>, <<"N", "L">>, <<"P", "L">>, <<"P", "T">>, <<"R", "O">>, <<"S", "K">>,
    <<"S", "I">>, <<"E", "S">>, <<"S", "E">> }

\* the divisor of the gram conversion
GramsPerKg == 1000

\* the number of decimals of round(..., 3)
RoundDigits == 3

RECURSIVE Pow10(_)
Pow10(n) == IF n = 0 THEN 1 ELSE 10 * Pow10(n - 1)

\* the number of weight units in one kilogram: weights are exact multiples of
\* 10^-5 kg
KgUnits == Pow10(5)

(***************************************************************************)
(* get_country_name and the name tables of analyze_invoice                 *)
(***************************************************************************)
\* pycountry.countries.get(alpha_2=upper): an excerpt of the ISO 3166 table;
\* <<>> stands for None.  XX, ZZ and the like are in no ISO table.
PyCountryName(upper) ==
    IF upper = <<"D", "E">> THEN <<"G", "e", "r", "m", "a", "n", "y">>
    ELSE IF upper = <<"F", "R">> THEN <<"F", "r", "a", "n", "c", "e">>
    ELSE IF upper = <<"S", "E">> THEN <<"S", "w", "e", "d", "e", "n">>
    ELSE IF upper = <<"C", "N">> THEN <<"C", "h", "i", "n", "a">>
    ELSE IF upper = <<"U", "S">>
         THEN <<"U", "n", "i", "t", "e", "d", " ", "S", "t", "a", "t", "e", "s">>
    ELSE IF upper = <<"G", "B">>
         THEN <<"U", "n", "i", "t", "e", "d", " ", "K", "i", "n", "g", "d", "o", "m">>
    ELSE IF upper = <<"M", "X">> THEN <<"M", "e", "x", "i", "c", "o">>
    ELSE IF upper = <<"P", "L">> THEN <<"P", "o", "l", "a", "n", "d">>
    ELSE <<>>

\* a lookup that answers "Unknown" for a code it does not find
get_country_name_or_unknown(code) ==
    LET upper == Upper(code)
    IN  IF upper = <<"K", "R">>
        THEN <<"R", "e", "p", "u", "b", "l", "i", "c", " ", "o", "f", " ",
               "K", "o", "r", "e", "a">>
        ELSE IF PyCountryName(upper) # <<>> THEN PyCountryName(upper)
        ELSE <<"U", "n", "k", "n", "o", "w", "n">>

\* main.py 132-149
get_country_name(code) ==
    LET upper == Upper(code)
    IN  IF upper = <<"K", "R">>
        THEN <<"R", "e", "p", "u", "b", "l", "i", "c", " ", "o", "f", " ",
               "K", "o", "r", "e", "a">>
        ELSE IF PyCountryName(upper) # <<>> THEN PyCountryName(upper)
        ELSE code

\* {"MX": ..., "MY": ..., "PL": ...}.get(coo, special_names.get(coo,
\* get_country_name(coo)))
CountryName(coo) ==
    IF coo = <<"M", "X">> THEN <<"M", "e", "x", "i", "c", "o">>
    ELSE IF coo = <<"M", "Y">> THEN <<"M", "a", "l", "a", "y", "s", "i", "a">>
    ELSE IF coo = <<"P", "L">> THEN <<"P", "o", "l", "a", "n", "d">>
    ELSE IF coo = <<"K", "R">>
         THEN <<"R", "e", "p", "u", "b", "l", "i", "c", " ", "o", "f", " ",
                "K", "o", "r", "e", "a">>
    ELSE get_country_name(coo)

(***************************************************************************)
(* coo_weight_pattern:                                                     *)
(*   /\s*(?P<coo>[A-Za-z]{2})\s*/\s*(?P<weight>[\d.,]+)\s*                 *)
(*   (?P<unit>KG|KGS|G|GRAMS?)\b      with re.IGNORECASE                   *)
(***************************************************************************)
\* the position after the greedy \s* that starts at i
SkipSpace(s, i) ==
    LET stop == {j \in i..Len(s) : ~IsSpace(s[j])}
    IN  IF stop = {} THEN Len(s) + 1
        ELSE CHOOSE j \in stop : \A k \in stop : j <= k

\* the position after the greedy [\d.,]* that starts at i
SkipNum(s, i) ==
    LET stop == {j \in i..Len(s) : ~IsNumChar(s[j])}
    IN  IF stop = {} THEN Len(s) + 1
        ELSE CHOOSE j \in stop : \A k \in stop : j <= k

\* the alternatives of the unit group in the order the matcher tries them
\* (GRAMS? is greedy: GRAMS before GRAM)
UnitAlternatives ==
    << <<"K", "G">>, <<"K", "G", "S">>, <<"G">>,
       <<"G", "R", "A", "M", "S">>, <<"G", "R", "A", "M">> >>

\* the literal lit matches at i, letter case ignored
LitAt(s, i, lit) ==
    /\ i + Len(lit) - 1 <= Len(s)
    /\ Upper(SubSeq(s, i, i + Len(lit) - 1)) = lit

\* \b at position j, given that the character before j is a word character
WordBoundary(s, j) == j > Len(s) \/ ~IsWord(s[j])

\* the text of the unit group matched at i and followed by \b, or <<>>
UnitAt(s, i) ==
    LET ok == {k \in 1..Len(UnitAlternatives) :
                  /\ LitAt(s, i, UnitAlternatives[k])
                  /\ WordBoundary(s, i + Len(UnitAlternatives[k]))}
    IN  IF ok = {} THEN <<>>
        ELSE LET k == CHOOSE x \in ok : \A y \in ok : x <= y
             IN  SubSeq(s, i, i + Len(UnitAlternatives[k]) - 1)

NoMatch == [ok |-> FALSE, coo |-> <<>>, weight |-> <<>>, unit |-> <<>>]

\* the match of the pattern that starts at position i, if there is one
MatchAt(s, i) ==
    IF i > Len(s) \/ s[i] # "/" THEN NoMatch
    ELSE
    LET c == SkipSpace(s, i + 1)
    IN  IF c + 1 > Len(s) \/ ~IsAlpha(s[c]) \/ ~IsAlpha(s[c + 1]) THEN NoMatch
        ELSE
        LET sl == SkipSpace(s, c + 2)
        IN  IF sl > Len(s) \/ s[sl] # "/" THEN NoMatch
            ELSE
            LET w  == SkipSpace(s, sl + 1)
                we == SkipNum(s, w)
                u  == SkipSpace(s, we)
            IN  IF we = w \/ UnitAt(s, u) = <<>> THEN NoMatch
                ELSE [ok |-> TRUE,
                      coo |-> SubSeq(s, c, c + 1),
                      weight |-> SubSeq(s, w, we - 1),
                      unit |-> UnitAt(s, u)]

\* coo_weight_pattern.search(s): the leftmost match
Search(s) ==
    LET starts == {i \in 1..Len(s) : MatchAt(s, i).ok}
    IN  IF starts = {} THEN NoMatch
        ELSE MatchAt(s, CHOOSE i \in starts : \A j \in starts : i <= j)

(***************************************************************************)
(* float(), the gram conversion and round(x, 3)                            *)
(***************************************************************************)
RECURSIVE DigitsValue(_)
DigitsValue(ds) ==
    IF ds = <<>> THEN 0
    ELSE 10 * DigitsValue(SubSeq(ds, 1, Len(ds) - 1))
         + (IndexIn(ds[Len(ds)], Digits) - 1)

\* float(ws) raises ValueError: ws (digits and dots only) is no decimal literal
FloatRaises(ws) ==
    \/ Cardinality({i \in 1..Len(ws) : ws[i] = "."}) > 1
    \/ {i \in 1..Len(ws) : IsDigit(ws[i])} = {}

\* float(ws) * unit, for a number of weight units `unit` that is a power of
\* ten and a literal ws with at most that many fractional digits
Float(ws, unit) ==
    LET dot  == FindChar(ws, ".", 1)
        ip   == SubSeq(ws, 1, dot - 1)
        fp   == From(ws, dot + 1)
    IN  DigitsValue(ip) * unit + DigitsValue(fp) * (unit \div Pow10(Len(fp)))

\* a conversion that reads the digits of a token float() rejects
WeightValueOfDigits(m) ==
    LET weight_str == Strip(Remove(m.weight, <<",">>))
        unit == Upper(Strip(m.unit))
        scale == IF StartsWith(unit, <<"G">>) THEN KgUnits \div GramsPerKg
                 ELSE KgUnits
    IN  IF FloatRaises(weight_str)
        THEN DigitsValue(Remove(weight_str, <<".">>)) * scale
        ELSE Float(weight_str, scale)

\* a weight taken as kilograms whatever the unit
WeightValueNoConversion(m) ==
    LET weight_str == Strip(Remove(m.weight, <<",">>))
    IN  IF FloatRaises(weight_str) THEN 0 ELSE Float(weight_str, KgUnits)

\* main.py 249-258: the weight of a matched row in kilograms (held in weight
\* units: a gram is KgUnits / 1000 of them)
WeightValue(m) ==
    LET weight_str == Strip(Remove(m.weight, <<",">>))
        unit == Upper(Strip(m.unit))
    IN  IF FloatRaises(weight_str) THEN 0
        ELSE IF StartsWith(unit, <<"G">>)
             THEN Float(weight_str, KgUnits \div GramsPerKg)
             ELSE Float(weight_str, KgUnits)

\* a total that is handed on as it is, without rounding
Round3Skipped(x) == x

\* round(x, 3) for x >= 0: to the nearest multiple of 10^-3 kg, an exact tie to
\* the even one
Round3(x) ==
    LET q == KgUnits \div Pow10(RoundDigits)
        lo == x \div q
        r == x % q
    IN  IF 2 * r < q THEN lo * q
        ELSE IF 2 * r > q THEN (lo + 1) * q
        ELSE IF lo % 2 = 0 THEN lo * q
        ELSE (lo + 1) * q

(***************************************************************************)
(* The input: CSV files as csv.reader yields them, a list of rows of cells *)
(***************************************************************************)
\* a row of 17 cells with columns 0, 1, 5, 9, 11 and 16 filled
MkRow(c0, c1, c5, c9, c11, c16) ==
    <<c0, c1, <<>>, <<>>, <<>>, c5, <<>>, <<>>, <<>>, c9, <<>>, c11,
      <<>>, <<>>, <<>>, <<>>, c16>>

\* a row of 17 cells with columns 0, 9, 13 and 16 filled
MkOrderRow(c0, c9, c13, c16) ==
    <<c0, <<>>, <<>>, <<>>, <<>>, <<>>, <<>>, <<>>, <<>>, c9, <<>>, <<>>,
      <<>>, c13, <<>>, <<>>, c16>>

FileA ==
    [name |-> <<"a", ".", "c", "s", "v">>,
     error |-> <<>>,
     rows |-> <<
        <<<<"H", "E", "A", "D", "E", "R">>, <<"I", "N", "V", "1">>>>,
        MkRow(<<"I", "T", "E", "M">>, <<"1", "0">>, <<"W", "i", "d", "g", "e", "t">>,
              <<"P", "O", "1">>, <<"A", "1">>,
              <<"/", " ", "M", "X", " ", "/", " ", "2", "5", "0", "0", " ",
                "G">>),
        MkRow(<<"I", "T", "E", "M">>, <<"2", "0">>, <<"G", "a", "d", "g", "e", "t">>,
              <<"P", "O", "2">>, <<"A", "2">>,
              <<"/", " ", "P", "L", " ", "/", " ", "1", "0", " ", "K", "G">>) >>]

FileB ==
    [name |-> <<"b", ".", "c", "s", "v">>,
     error |-> <<>>,
     rows |-> <<
        <<<<"I", "n", "v", "o", "i", "c", "e">>, <<"I", "N", "V", "2">>>>,
        MkRow(<<"I", "T", "E", "M">>, <<"1">>, <<"B", "o", "l", "t">>,
              <<" ", "P", "O", "1", " ">>, <<"A", "3">>,
              <<"/", " ", "M", "X", " ", "/", " ", "1", ".", "0", "0", "0",
                "5", " ", "K", "G">>),
        MkRow(<<"I", "T", "E", "M">>, <<"2">>, <<"N", "u", "t">>,
              <<"P", "O", "1">>, <<"A", "4">>,
              <<"/", " ", "U", "S", " ", "/", " ", "2", ".", "0", "0", "0",
                "5", " ", "K", "G">>) >>]

FileC ==
    [name |-> <<"c", ".", "c", "s", "v">>,
     error |-> <<"d", "e", "n", "i", "e", "d">>,
     rows |-> << >>]

FileD ==
    [name |-> <<"d", ".", "c", "s", "v">>,
     error |-> <<>>,
     rows |-> <<
        <<<<"<bom>", "h", "e", "a", "d", "e", "r">>, <<>>>>,
        MkRow(<<"I", "T", "E", "M">>, <<"7">>, <<"C", "a", "b", "l", "e">>,
              <<>>, <<"A", "5">>,
              <<"/", " ", "X", "X">>),
        MkRow(<<"I", "T", "E", "M">>, <<"8">>, <<"P", "l", "u", "g">>,
              <<"P", "O", "3">>, <<"A", "6">>,
              <<>>),
        MkRow(<<"I", "T", "E", "M">>, <<"8">>, <<"P", "l", "u", "g">>,
              <<"P", "O", "3">>, <<"A", "6">>,
              <<"5", " ", "K", "G">>),
        MkRow(<<"T", "O", "T", "A", "L">>, <<"9">>, <<"S", "u", "m">>,
              <<"P", "O", "9">>, <<"A", "7">>,
              <<"/", " ", "C", "N", " ", "/", " ", "5", " ", "K", "G">>),
        MkRow(<<" ", "<bom>", "i", "t", "e", "m">>, <<"9">>, <<"L", "a", "m", "p">>,
              <<"P", "O", "1">>, <<"B", "1">>,
              <<"/", "d", "e", "/", "1", ",", "0", "0", "0", ".", "5", "k",
                "g", "s">>) >>]

FileE ==
    [name |-> <<"e", ".", "c", "s", "v">>,
     error |-> <<>>,
     rows |-> <<
        MkRow(<<"I", "T", "E", "M">>, <<" ">>, <<"W", "i", "d", "g", "e", "t">>,
              <<"P", "O", "1">>, <<"A", "1">>,
              <<"/", " ", "X", "X">>) >>]

FileF ==
    [name |-> <<"f", ".", "c", "s", "v">>,
     error |-> <<>>,
     rows |-> <<
        <<<<"H", "E", "A", "D", "E", "R">>, <<"I", "N", "V", "1">>>>,
        MkRow(<<"I", "T", "E", "M">>, <<"5">>, <<"a", "\n", "L", "i", "n", "e">>,
              <<"P", "O", "2">>, <<"A", "1">>,
              <<"/", " ", "9", " ", "K", "G">>) >>]

FileG ==
    [name |-> <<"g", ".", "c", "s", "v">>,
     error |-> <<>>,
     rows |-> <<
        <<<<"I", "N", "V">>, <<"I", "N", "V", "3">>>>,
        MkRow(<<"I", "T", "E", "M">>, <<"1">>, <<"G", "a", "d", "g", "e", "t">>,
              <<"P", "O", "2">>, <<"A", "2">>,
              <<"/", " ", "P", "L", " ", "/", " ", "1", "0", " ", "K", "G">>),
        MkRow(<<"I", "T", "E", "M">>, <<"2">>, <<"G", "a", "d", "g", "e", "t">>,
              <<"P", "O", "2">>, <<"A", "2">>,
              <<"/", "p", "l", "/", " ", "3", " ", "G", "R", "A", "M", "S">>),
        MkRow(<<"I", "T", "E", "M">>, <<"3">>, <<"W", "i", "d", "g", "e", "t">>,
              <<>>, <<"A", "1">>,
              <<"/", " ", "M", "X", " ", "/", " ", "2", "5", "0", "0", " ",
                "G">>) >>]

FileH ==
    [name |-> <<"h", ".", "c", "s", "v">>,
     error |-> <<>>,
     rows |-> <<
        MkRow(<<"I", "T", "E", "M">>, <<"1", "1">>, <<"C", "h", "i", "p">>,
              <<"P", "O", "4">>, <<"A", "8">>,
              <<"/", " ", "K", "R", " ", "/", " ", ".", " ", "G">>),
        MkRow(<<"I", "T", "E", "M">>, <<"1", "2">>, <<"F", "u", "s", "e">>,
              <<"P", "O", "4">>, <<"A", "9">>,
              <<"/", " ", "G", "B", " ", "/", " ", "7", " ", "K", "G", "X">>),
        MkRow(<<"I", "T", "E", "M">>, <<"1", "3">>, <<>>,
              <<"P", "O", "4">>, <<>>,
              <<"x", "/", "Z", "Z", "/", " ", "0", ".", "4", " ", "k", "g">>),
        <<>>,
        <<<<"I", "T", "E", "M">>, <<"1", "4">>, <<"/", " ", "U", "S", " ", "/", " ", "1", " ", "K", "G">>>> >>]

FileI ==
    [name |-> <<"i", ".", "c", "s", "v">>,
     error |-> <<>>,
     rows |-> << >>]

FileJ ==
    [name |-> <<"j", ".", "c", "s", "v">>,
     error |-> <<>>,
     rows |-> <<
        <<<<"I", "n", "v">>, <<" ", "I", "N", "V", "2", " ">>>>,
        MkRow(<<"I", "T", "E", "M">>, <<"1">>, <<" ", " ">>,
              <<" ", " ">>, <<" ", "\t">>,
              <<"/", " ", "z", "z", " ", "/", " ", "1", ".", "2", ".", "3",
                " ", "K", "G">>),
        MkRow(<<"I", "T", "E", "M">>, <<"2">>, <<" ", "R", "i", "n", "g">>,
              <<"P", "O", "5">>, <<"C", "1", " ">>,
              <<"/", " ", "F", "R", " ", "/", " ", "1", ".", ".", "2", " ",
                "G">>),
        MkRow(<<"I", "T", "E", "M">>, <<"3">>, <<"C", "l", "i", "p">>,
              <<"P", "O", "5">>, <<"C", "2">>,
              <<"/", " ", "U", "S", " ", "/", " ", "4", ".", "0", "0", "0",
                "4", " ", "K", "G">>) >>]

FileK ==
    [name |-> <<"k", ".", "c", "s", "v">>,
     error |-> <<>>,
     rows |-> <<
        <<<<"H", "E", "A", "D", "E", "R">>>>,
        MkRow(<<"I", "t", "e", "m", " ">>, <<"1">>, <<"T", "a", "p", "e">>,
              <<"P", "O", "6">>, <<"D", "1">>,
              <<"/", " ", "C", "N", " ", "/", " ", "1", "2", ".", "3", " ",
                "G", "r", "a", "m">>),
        MkRow(<<"I", "T", "E", "M", "S">>, <<"2">>, <<"G", "l", "u", "e">>,
              <<"P", "O", "7">>, <<"D", "2">>,
              <<"/", " ", "X", "X">>),
        MkRow(<<>>, <<"3">>, <<"W", "i", "r", "e">>,
              <<"P", "O", "8">>, <<"D", "3">>,
              <<"/", " ", "U", "S", " ", "/", " ", "1", " ", "K", "G">>),
        MkRow(<<"I", "T", "E", "M">>, <<"4">>, <<"F", "o", "i", "l">>,
              <<"P", "O", "6">>, <<"D", "4">>,
              <<"/", " ", "M", "X", " ", "/", "-", "5", " ", "K", "G">>),
        MkRow(<<"I", "T", "E", "M">>, <<"5">>, <<"B", "o", "l", "t">>,
              <<"P", "O", "6">>, <<"D", "5">>,
              <<"/", " ", "3", " ", " ", "K", "G", " ", "/", " ", " ", "2",
                " ", " ", " ", "G", " ", "x">>),
        MkRow(<<"I", "T", "E", "M">>, <<"6">>,
              <<"N", "u", "t", "\n", "D", "e", "s", "c", ":", " ", "P", "i",
                "n">>,
              <<"P", "O", "6">>, <<"D", "6">>,
              <<"/", " ", "?">>) >>]

FileL ==
    [name |-> <<"l", ".", "c", "s", "v">>,
     error |-> <<>>,
     rows |-> <<
        <<<<"H", "E", "A", "D", "E", "R">>, <<"I", "N", "V", "4">>>>,
        <<<<"C", "u", "s", "t", "o", "m", "e", "r">>,
          <<" ", "A", "C", "M", "E", " ">>>>,
        <<>>,
        <<>>,
        <<>>,
        <<>>,
        MkOrderRow(<<"I", "T", "E", "M">>, <<"P", "O", "0">>,
                   <<"S", "O", "0", "-", "0", "0", "0", "0", "1", "0">>,
                   <<"/", " ", "S", "E", " ", "/", " ", "2", " ", "K", "G">>),
        MkOrderRow(<<"I", "T", "E", "M">>, <<"P", "O", "9", "9", "9">>,
                   <<"S", "O", "1", "2", "3", "4", "5", "-", "0", "0", "0",
                     "0", "1", "0">>,
                   <<"/", " ", "M", "X", " ", "/", " ", "1", " ", "K", "G">>),
        MkOrderRow(<<"I", "T", "E", "M">>, <<" ", "P", "O", "9", "9", "9", " ">>,
                   <<"S", "O", "1", "2", "3", "4", "5", "-", "0", "0", "0",
                     "0", "2", "0">>,
                   <<>>),
        MkOrderRow(<<>>, <<"P", "O", "9", "9", "9">>,
                   <<"S", "O", "7", "7", "7">>,
                   <<>>),
        MkOrderRow(<<>>, <<"P", "O", "1", "0", "0", "0">>,
                   <<"S", "O", "1", "2", "3", "4", "5", "-", "0", "0", "0",
                     "0", "1", "0">>,
                   <<>>),
        MkOrderRow(<<>>, <<"P", "O", "9", "9", "9">>,
                   <<" ", "S", "O", "1", "2", "3", "4", "5", " ", "-", "x",
                     "-", "y">>,
                   <<>>),
        <<>>,
        MkOrderRow(<<>>, <<>>,
                   <<"S", "O", "5", "-", "1">>,
                   <<>>),
        MkOrderRow(<<>>, <<"P", "O", "5">>,
                   <<" ", " ">>,
                   <<>>),
        MkOrderRow(<<>>, <<"P", "O", "5">>,
                   <<"-", "S", "O", "9">>,
                   <<>>),
        <<<<"I", "T", "E", "M">>, <<"9">>>>,
        MkOrderRow(<<>>, <<"P", "O", "9", "9", "9">>,
                   <<"S", "O", "7", "7", "7", "-", "1">>,
                   <<>>) >>]

\* the files the user can select; error # <<>> is the text of the exception
\* that open() or csv.reader raises for the file
Pool == <<FileA, FileB, FileC, FileD, FileE, FileF, FileG, FileH, FileI,
          FileJ, FileK, FileL>>

\* the largest number of CSV files in one batch
MaxFiles == 2

\* the batches: up to MaxFiles distinct files of the pool, in any order
Batches ==
    UNION {{b \in [1..n -> 1..Len(Pool)] :
               \A i, j \in 1..n : i # j => b[i] # b[j]} : n \in 1..MaxFiles}

(***************************************************************************)
(* The selection of select_files: CSV files of the pool and PDF files      *)
(***************************************************************************)
\* the last position of "." in s, or 0
LastDot(s) ==
    LET dots == {i \in 1..Len(s) : s[i] = "."}
    IN  IF dots = {} THEN 0 ELSE CHOOSE i \in dots : \A j \in dots : i >= j

\* os.path.splitext(base)[0]: the name without its extension
SplitExt(base) ==
    IF LastDot(base) > 1 THEN SubSeq(base, 1, LastDot(base) - 1) ELSE base

\* re.sub(r"\(.*?\)", "", base): every "(" up to the next ")" removed
RECURSIVE RemoveParens(_)
RemoveParens(base) ==
    LET open == FindChar(base, "(", 1)
        close == FindChar(base, ")", open + 1)
    IN  IF open > Len(base) \/ close > Len(base) THEN base
        ELSE SubSeq(base, 1, open - 1) \o RemoveParens(From(base, close + 1))

\* main.py 1053-1058: _sig(path), the invoice signature of a file name
Sig(name) ==
    Strip(Remove(Remove(SplitExt(RemoveParens(name)),
                        <<"I", "N", "V", "_", "C", "S", "V", "_">>),
                 <<"I", "N", "V", "_", "P", "D", "F", "_", "D", "_">>))

\* a PDF file of a selection: its name and the BPID that
\* extract_bpid_from_pdf finds in it ("" when it finds none)
Pdf(name, bpid) == [name |-> name, bpid |-> bpid]

\* one PDF per CSV file of batch b, named after it, all of one customer
MatchingPdfs(b) ==
    [i \in 1..Len(b) |->
        Pdf(SplitExt(Pool[b[i]].name) \o <<".", "p", "d", "f">>, <<"B", "1">>)]

\* selections that select_files turns down: nothing selected, no PDF, no
\* CSV, a PDF of another invoice, PDFs of two customers
RejectedSelections ==
    {[csv |-> <<>>, pdf |-> <<>>],
     [csv |-> <<1>>, pdf |-> <<>>],
     [csv |-> <<>>, pdf |-> <<Pdf(<<"a", ".", "p", "d", "f">>, <<"B", "1">>)>>],
     [csv |-> <<1>>, pdf |-> <<Pdf(<<"b", ".", "p", "d", "f">>, <<"B", "1">>)>>],
     [csv |-> <<1, 2>>,
      pdf |-> <<Pdf(<<"a", ".", "p", "d", "f">>, <<"B", "1">>),
                Pdf(<<"b", ".", "p", "d", "f">>, <<"B", "2">>)>>]}

\* the selections of one run of select_files: every batch with its PDFs, and
\* the selections that are turned down
Selections ==
    {[csv |-> b, pdf |-> MatchingPdfs(b)] : b \in Batches}
    \cup RejectedSelections

\* main.py 1041-1103: what select_files makes of a selection: the message box
\* it shows before it returns, or "ok"
SelectionVerdict(sel) ==
    LET csv_sigs == {Sig(Pool[sel.csv[i]].name) : i \in 1..Len(sel.csv)}
        pdf_sigs == {Sig(sel.pdf[i].name) : i \in 1..Len(sel.pdf)}
        pdf_bpids == {sel.pdf[i].bpid : i \in 1..Len(sel.pdf)} \ {<<>>}
    IN  IF sel.csv = <<>> /\ sel.pdf = <<>> THEN "no_files"
        ELSE IF sel.csv # <<>> /\ sel.pdf # <<>> /\ csv_sigs # pdf_sigs
        THEN "invoice_mismatch"
        ELSE IF sel.csv # <<>> /\ sel.pdf # <<>>
                /\ Cardinality(pdf_bpids) > 1
        THEN "bpid_mismatch"
        ELSE IF sel.csv = <<>> \/ sel.pdf = <<>> THEN "missing_types"
        ELSE "ok"

\* the positions at which select_files has returned without a batch
Rejections ==
    {"no_files", "invoice_mismatch", "bpid_mismatch", "missing_types"}

(***************************************************************************)
(* The preferences file user_preferences.json                              *)
(***************************************************************************)
\* prefs[key] = v on a dictionary: a function from the keys present
DictSet(p, key, v) ==
    [k \in (DOMAIN p) \cup {key} |-> IF k = key THEN v ELSE p[k]]

\* the dictionary {}
EmptyDict == [k \in {} |-> 0]

\* main.py 61-89: _ensure_prefs_file_exists on the stored dictionary
ensure_prefs_file_exists(stored) ==
    IF "dark_mode" \notin DOMAIN stored THEN DictSet(stored, "dark_mode", TRUE)
    ELSE stored

\* a counter raised by the number of CSV files of the batch
increment_per_file(p) ==
    DictSet(p, "invoice_analysis_count",
            (IF "invoice_analysis_count" \in DOMAIN p
             THEN p["invoice_analysis_count"] ELSE 0) + Len(csv_files))

\* main.py 409-425: the dictionary is loaded, the counter raised by one (0
\* when the key is absent) and the dictionary stored
increment_invoice_analysis_counter(p) ==
    DictSet(p, "invoice_analysis_count",
            (IF "invoice_analysis_count" \in DOMAIN p
             THEN p["invoice_analysis_count"] ELSE 0) + 1)

\* main.py 428-444: int(prefs.get("invoice_analysis_count", 0))
get_invoice_analysis_count(p) ==
    IF "invoice_analysis_count" \in DOMAIN p
    THEN p["invoice_analysis_count"] ELSE 0

\* main.py 446-468
reset_invoice_analysis_counter(p) == DictSet(p, "invoice_analysis_count", 0)

\* a writer that stores a dictionary of its own key only
save_dark_mode_preference_alone(p, dark_mode_value) ==
    DictSet(EmptyDict, "dark_mode", dark_mode_value)

\* main.py 471-487
save_dark_mode_preference(p, dark_mode_value) ==
    DictSet(p, "dark_mode", dark_mode_value)

(***************************************************************************)
(* analyze_invoice                                                         *)
(***************************************************************************)
\* _norm(s)
Norm(s) == Upper(LStripBom(Strip(s)))

\* row[k].strip() if len(row) > k and row[k] else default
CellOrDefault(row, k, default) ==
    IF Len(row) > k /\ row[k + 1] # <<>> THEN Strip(row[k + 1]) ELSE default

\* an invoice reference that is read only under a HEADER, INVOICE or INV cell
InvoiceReferenceUnderHeader(rows) ==
    IF Len(rows) > 0 /\ Len(rows[1]) > 1
          /\ Norm(rows[1][1]) \in
                {<<"H", "E", "A", "D", "E", "R">>,
                 <<"I", "N", "V", "O", "I", "C", "E">>,
                 <<"I", "N", "V">>}
    THEN Strip(rows[1][2])
    ELSE Unknown

\* main.py 198-204: the invoice reference read from the first row
InvoiceReference(rows) ==
    IF Len(rows) > 0 /\ Len(rows[1]) > 1
    THEN LET b1 == Strip(rows[1][2])
         IN  IF b1 = <<>>
                  /\ Norm(rows[1][1]) \in
                        {<<"H", "E", "A", "D", "E", "R">>,
                         <<"I", "N", "V", "O", "I", "C", "E">>,
                         <<"I", "N", "V">>}
             THEN Strip(rows[1][2])
             ELSE b1
    ELSE Unknown

\* a filter that passes over empty rows only
RowIgnoredWhenEmpty(row) == row = <<>>

\* main.py 208-212: the row is iterated past without any effect
RowIgnored(row) == row = <<>> \/ Norm(row[1]) # ITEM

\* a Box 5 set that takes the cell of column 9 as it is, untrimmed
Box5ValuesUntrimmed(vals, row) ==
    IF Len(row) > 9 /\ row[10] # <<>> /\ Strip(row[10]) # <<>>
    THEN vals \cup {row[10]}
    ELSE vals

\* main.py 219-222: the Box 5 set after the row
Box5Values(vals, row) ==
    IF Len(row) > 9 /\ row[10] # <<>> /\ Strip(row[10]) # <<>>
    THEN vals \cup {Strip(row[10])}
    ELSE vals

\* main.py 225: the COO/weight field of the row
CooWeightField(row) == CellOrDefault(row, 16, <<>>)

\* an alert for every unmatched field that is not empty
HasSeparatorOrText(field) == field # <<>>

\* main.py 230: the unmatched field is reported as Missing COO
HasSeparator(field) == Contains(field, "/")

\* main.py 232-236: the weight text of a Missing COO alert
WeightInfo(field) ==
    LET last == IF Contains(field, "/")
                THEN Strip(Split(field, "/")[Len(Split(field, "/"))])
                ELSE field
    IN  Join(Words(last), <<" ">>)

\* main.py 238-243: the text of a Missing COO alert
MissingCooAlert(line_number, catalog, description, weight_info) ==
    MissingCooPrefix \o <<"L", "i", "n", "e", " ">> \o line_number
    \o <<"\n", " ", "P", "r", "o", "d", "u", "c", "t", ":", " ">> \o catalog
    \o <<"\n", " ", "D", "e", "s", "c", ":", " ">> \o description
    \o <<"\n", " ", "W", "e", "i", "g", "h", "t", ":", " ">> \o weight_info

\* main.py 268: the display string of an item
ItemText(catalog, description, country_name) ==
    catalog \o CommaSpace \o description \o CommaSpace \o country_name

\* a classification that takes Poland for a non-EU country
IsEUWithoutPoland(coo) == coo \in EU_CODES \ {<<"P", "L">>}

\* main.py 270: the item goes to eu_items
IsEU(coo) == coo \in EU_CODES

\* a total that rounds every item before it is added
AddNonEuWeightRounded(total, w) == total + Round3(w)

\* a total from which the weight of an item is taken off
AddNonEuWeightSubtracted(total, w) == total - w

\* main.py 274: the running non-EU total after an item of weight w
AddNonEuWeight(total, w) == total + w

\* main.py 276
Box5Reference(vals) ==
    IF vals # {} THEN Join(Sorted(vals), CommaSpace) ELSE Unknown

\* what a call of analyze_invoice hands to its caller: the returned tuple, or
\* (raised = TRUE) an exception that left the function
Returned(non_eu, eu, weight, box5, invoice, alerts) ==
    [raised |-> FALSE, error |-> <<>>, non_eu |-> non_eu, eu |-> eu,
     weight |-> weight, box5 |-> box5, invoice |-> invoice, alerts |-> alerts]

\* an exception that leaves analyze_invoice
ExceptHandlerReraise(e) ==
    [raised |-> TRUE, error |-> e, non_eu |-> <<>>, eu |-> <<>>,
     weight |-> 0, box5 |-> <<>>, invoice |-> <<>>, alerts |-> <<>>]

\* main.py 287-290: the except clauses
ExceptHandler(e) ==
    Returned(<<>>, <<>>, 0, Unknown, Unknown, <<ErrorPrefix \o e>>)

NoReturn == Returned(<<>>, <<>>, 0, <<>>, <<>>, <<>>)

analyzeVars == <<lines, ri, non_eu_items, eu_items, total_non_eu_weight,
                 invoice_reference, box5_values, missing_coo_alerts,
                 weight_value>>

batchVars == <<all_non_eu_items, all_eu_items, all_po_numbers,
               all_invoice_numbers, total_weight, all_missing_coo,
               file_issues, message>>

exportVars == <<exported, metadata, ws_rows>>

prefsVars == <<prefs, dark_mode, analyses, written>>

\* main.py 1281 and 178-204: select_files calls analyze_invoice for the next
\* file; the locals are initialised and the file is read.  When reading raises,
\* the except clause returns at once.
CallAnalyze ==
    /\ pc = "loop"
    /\ fi < Len(csv_files)
    /\ LET f == csv_files[fi + 1]
       IN  /\ non_eu_items' = <<>>
           /\ eu_items' = <<>>
           /\ total_non_eu_weight' = 0
           /\ box5_values' = {}
           /\ missing_coo_alerts' = <<>>
           /\ weight_value' = 0
           /\ ri' = 0
           /\ IF f.error # <<>>
              THEN /\ lines' = <<>>
                   /\ invoice_reference' = Unknown
                   /\ ret' = ExceptHandler(f.error)
                   /\ results' = Append(results, ret')
                   /\ pc' = "returned"
              ELSE /\ lines' = f.rows
                   /\ invoice_reference' = InvoiceReference(f.rows)
                   /\ pc' = "rows"
                   /\ UNCHANGED <<ret, results>>
    /\ UNCHANGED <<csv_files, fi>>
    /\ UNCHANGED batchVars
    /\ UNCHANGED exportVars
    /\ UNCHANGED prefsVars

\* main.py 207-274: one iteration of the loop over the rows
ProcessRow ==
    /\ pc = "rows"
    /\ ri < Len(lines)
    /\ ri' = ri + 1
    /\ LET row == lines[ri + 1]
       IN  IF RowIgnored(row)
           THEN UNCHANGED <<non_eu_items, eu_items, total_non_eu_weight,
                            box5_values, missing_coo_alerts, weight_value>>
           ELSE
           LET catalog == CellOrDefault(row, 11, Unknown)
               description == CellOrDefault(row, 5, Unknown)
               coo_weight_field == CooWeightField(row)
               match == Search(coo_weight_field)
           IN  /\ box5_values' = Box5Values(box5_values, row)
               /\ IF ~match.ok
                  THEN /\ missing_coo_alerts' =
                            IF HasSeparator(coo_weight_field)
                            THEN Append(missing_coo_alerts,
                                   MissingCooAlert(
                                      CellOrDefault(row, 1, Unknown),
                                      catalog, description,
                                      WeightInfo(coo_weight_field)))
                            ELSE missing_coo_alerts
                       /\ UNCHANGED <<non_eu_items, eu_items,
                                      total_non_eu_weight, weight_value>>
                  ELSE
                  LET coo == Upper(Strip(match.coo))
                      item_text == ItemText(catalog, description,
                                            CountryName(coo))
                  IN  /\ weight_value' = WeightValue(match)
                      /\ IF IsEU(coo)
                         THEN /\ eu_items' = Append(eu_items, item_text)
                              /\ UNCHANGED <<non_eu_items,
                                             total_non_eu_weight>>
                         ELSE /\ non_eu_items' =
                                    Append(non_eu_items, item_text)
                              /\ total_non_eu_weight' =
                                    AddNonEuWeight(total_non_eu_weight,
                                                   weight_value')
                              /\ UNCHANGED eu_items
                      /\ UNCHANGED missing_coo_alerts
    /\ UNCHANGED <<pc, csv_files, fi, lines, invoice_reference, ret, results>>
    /\ UNCHANGED batchVars
    /\ UNCHANGED exportVars
    /\ UNCHANGED prefsVars

\* main.py 276-285: the loop is over; analyze_invoice returns its tuple
ReturnResult ==
    /\ pc = "rows"
    /\ ri = Len(lines)
    /\ ret' = Returned(non_eu_items, eu_items, Round3(total_non_eu_weight),
                       Box5Reference(box5_values),
                       IF invoice_reference # <<>> THEN invoice_reference
                       ELSE Unknown,
                       missing_coo_alerts)
    /\ results' = Append(results, ret')
    /\ pc' = "returned"
    /\ UNCHANGED <<csv_files, fi>>
    /\ UNCHANGED analyzeVars
    /\ UNCHANGED batchVars
    /\ UNCHANGED exportVars
    /\ UNCHANGED prefsVars

(***************************************************************************)
(* select_files: the batch loop and the message                            *)
(***************************************************************************)
\* str(x).startswith("Error during analysis:")
IsError(x) ==
    StartsWith(x, <<"E", "r", "r", "o", "r", " ", "d", "u", "r", "i", "n",
                    "g", " ", "a", "n", "a", "l", "y", "s", "i", "s", ":">>)

\* [x for x in xs if keep(x)], for the two filters of main.py 1305-1314
RECURSIVE Errs(_)
Errs(xs) ==
    IF xs = <<>> THEN <<>>
    ELSE (IF IsError(xs[1]) THEN <<xs[1]>> ELSE <<>>) \o Errs(Tail(xs))

RECURSIVE Misses(_)
Misses(xs) ==
    IF xs = <<>> THEN <<>>
    ELSE (IF ~IsError(xs[1]) THEN <<xs[1]>> ELSE <<>>) \o Misses(Tail(xs))

\* the error texts of a file are dropped instead of reported
FileIssuesDropped(name, errs) == <<>>

\* main.py 1316-1321: f"{basename} <arrow> {e}" for every error text
FileIssues(name, errs) ==
    [i \in 1..Len(errs) |-> name \o <<" ", "<arrow>", " ">> \o errs[i]]

NoFields == [raised |-> FALSE, line_num |-> <<>>, product |-> <<>>,
             desc |-> <<>>, weight_txt |-> <<>>]

\* main.py 1338-1347: the loop over the parts of one alert; raised = TRUE when
\* p.split(" ", 1)[1] or p.split(":", 1)[1] raises IndexError
RECURSIVE ParseParts(_, _)
ParseParts(parts, acc) ==
    IF parts = <<>> \/ acc.raised THEN acc
    ELSE
    LET p == parts[1]
        up == Upper(p)
    IN  IF StartsWith(up, <<"L", "I", "N", "E">>)
        THEN IF Len(Split1(p, " ")) < 2
             THEN [acc EXCEPT !.raised = TRUE]
             ELSE ParseParts(Tail(parts),
                     [acc EXCEPT !.line_num = Strip(Split1(p, " ")[2])])
        ELSE IF StartsWith(up, <<"P", "R", "O", "D", "U", "C", "T", ":">>)
        THEN IF Len(Split1(p, ":")) < 2
             THEN [acc EXCEPT !.raised = TRUE]
             ELSE ParseParts(Tail(parts),
                     [acc EXCEPT !.product = Strip(Split1(p, ":")[2])])
        ELSE IF StartsWith(up, <<"D", "E", "S", "C", ":">>)
        THEN IF Len(Split1(p, ":")) < 2
             THEN [acc EXCEPT !.raised = TRUE]
             ELSE ParseParts(Tail(parts),
                     [acc EXCEPT !.desc = Strip(Split1(p, ":")[2])])
        ELSE IF StartsWith(up, <<"W", "E", "I", "G", "H", "T", ":">>)
        THEN IF Len(Split1(p, ":")) < 2
             THEN [acc EXCEPT !.raised = TRUE]
             ELSE ParseParts(Tail(parts),
                     [acc EXCEPT !.weight_txt = Strip(Split1(p, ":")[2])])
        ELSE ParseParts(Tail(parts), acc)

\* main.py 1330-1331: the stripped lines of an alert without its prefix
AlertParts(entry) ==
    LET core == Remove(entry, MissingCooPrefix)
        raw == Split(core, "\n")
    IN  [i \in 1..Len(raw) |-> Strip(raw[i])]

\* main.py 1349-1355: the line of the batch list built from the parsed fields
MissingLine(f) ==
    LET last == IF Contains(f.weight_txt, "/")
                THEN Strip(Split(f.weight_txt, "/")
                              [Len(Split(f.weight_txt, "/"))])
                ELSE f.weight_txt
        weight_txt == Join(Words(last), <<" ">>)
    IN  <<"L", "i", "n", "e", " ">> \o f.line_num
        \o <<" ", "<dash>", " ">> \o f.product \o CommaSpace \o f.desc
        \o CommaSpace \o weight_txt

\* main.py 1329-1355: the loop over the alerts of one file, appending to out;
\* it stops at the first alert whose parsing raises
RECURSIVE FormatMisses(_, _)
FormatMisses(misses, out) ==
    IF misses = <<>> THEN [raised |-> FALSE, out |-> out]
    ELSE LET f == ParseParts(AlertParts(misses[1]), NoFields)
         IN  IF f.raised THEN [raised |-> TRUE, out |-> out]
             ELSE FormatMisses(Tail(misses), Append(out, MissingLine(f)))

\* a marker line is added for a single file as well
multiple_files_always == TRUE

\* main.py 1113
multiple_files == Len(csv_files) > 1

\* main.py 1036-1113: the user selects files; select_files returns when the
\* selection fails a check, otherwise the accumulators of the batch are
\* initialised
select_files(sel) ==
    /\ pc = "idle"
    /\ csv_files' = [i \in 1..Len(sel.csv) |-> Pool[sel.csv[i]]]
    /\ fi' = 0
    /\ all_non_eu_items' = <<>>
    /\ all_eu_items' = <<>>
    /\ all_po_numbers' = <<>>
    /\ all_invoice_numbers' = <<>>
    /\ total_weight' = 0
    /\ all_missing_coo' = <<>>
    /\ file_issues' = <<>>
    /\ pc' = IF SelectionVerdict(sel) = "ok" THEN "loop"
             ELSE SelectionVerdict(sel)
    /\ UNCHANGED <<message, ret, results>>
    /\ UNCHANGED analyzeVars
    /\ UNCHANGED exportVars
    /\ UNCHANGED prefsVars

\* select_files on any selection
SelectFiles == \E sel \in Selections : select_files(sel)


\* main.py 1284-1355: the rest of the loop body for the file just analysed.
\* An exception of analyze_invoice is caught and reported as a file issue; an
\* exception raised while the alerts are parsed is caught nowhere and ends
\* select_files.
Aggregate ==
    /\ pc = "returned"
    /\ LET name == csv_files[fi + 1].name
       IN  IF ret.raised
           THEN /\ file_issues' =
                      Append(file_issues,
                             name \o <<" ", "<arrow>", " ", "U", "n", "e",
                                       "x", "p", "e", "c", "t", "e", "d", " ",
                                       "e", "r", "r", "o", "r", ":", " ">>
                                  \o ret.error)
                /\ pc' = "loop"
                /\ fi' = fi + 1
                /\ UNCHANGED <<all_non_eu_items, all_eu_items, all_po_numbers,
                               all_invoice_numbers, total_weight,
                               all_missing_coo>>
           ELSE
           LET misses == Misses(ret.alerts)
               marked == IF misses # <<>> /\ multiple_files
                         THEN Append(all_missing_coo, <<"<doc>", " ">> \o name)
                         ELSE all_missing_coo
               parsed == FormatMisses(misses, marked)
           IN  /\ all_non_eu_items' = all_non_eu_items \o ret.non_eu
               /\ all_eu_items' = all_eu_items \o ret.eu
               /\ all_po_numbers' =
                     IF ret.box5 # Unknown
                     THEN Append(all_po_numbers, ret.box5)
                     ELSE all_po_numbers
               /\ all_invoice_numbers' =
                     IF ret.invoice # Unknown
                     THEN Append(all_invoice_numbers, ret.invoice)
                     ELSE all_invoice_numbers
               /\ total_weight' = total_weight + ret.weight
               /\ file_issues' = file_issues \o FileIssues(name, Errs(ret.alerts))
               /\ all_missing_coo' = parsed.out
               /\ IF parsed.raised
                  THEN pc' = "crashed" /\ fi' = fi
                  ELSE pc' = "loop" /\ fi' = fi + 1
    /\ UNCHANGED <<csv_files, message, ret, results>>
    /\ UNCHANGED analyzeVars
    /\ UNCHANGED exportVars
    /\ UNCHANGED prefsVars

\* main.py 1387-1389 and 1395-1397: f"{i}. {item}\n" for every item
Numbered(items) ==
    [i \in 1..Len(items) |-> IntToStr(i) \o <<".", " ">> \o items[i] \o <<"\n">>]

\* main.py 1373-1375
Box5List(po_numbers) ==
    IF po_numbers # <<>> THEN Join(Sorted(ToSet(po_numbers)), CommaSpace)
    ELSE Unknown

\* a reference line that joins the references as they were met
InvoiceListAsMet(invoice_numbers) ==
    IF invoice_numbers # <<>> THEN Join(invoice_numbers, CommaSpace)
    ELSE Unknown

\* main.py 1376-1380
InvoiceList(invoice_numbers) ==
    IF invoice_numbers # <<>>
    THEN Join(Sorted(ToSet(invoice_numbers)), CommaSpace)
    ELSE Unknown

\* a non-EU section that lists every string once, like the EU section
NonEuSectionDeduplicated(items) == Numbered(Sorted(ToSet(items)))

\* main.py 1387-1389: the lines of the non-EU section
NonEuSection(items) == Numbered(items)

\* an EU section that lists the strings as they were met
EuSectionAsMet(items) == Numbered(items)

\* main.py 1395-1397: the lines of the EU section
EuSection(items) == Numbered(Sorted(ToSet(items)))

\* main.py 1373-1407: every file is done; the message is put together and the
\* counter of the preferences file is raised.  The variable parts of the
\* message are kept apart: the numbered lines of the two item sections and
\* the values of the Reference, Weight and Box 5 lines.  The field files is
\* history: the names of the files the message was built from.
BuildMessage ==
    /\ pc = "loop"
    /\ fi = Len(csv_files)
    /\ message' = [non_eu |-> NonEuSection(all_non_eu_items),
                   reference |-> InvoiceList(all_invoice_numbers),
                   weight |-> Round3(total_weight),
                   box5 |-> Box5List(all_po_numbers),
                   eu |-> EuSection(all_eu_items),
                   files |-> [i \in 1..Len(csv_files) |-> csv_files[i].name]]
    /\ prefs' = increment_invoice_analysis_counter(prefs)
    /\ analyses' = analyses + 1
    /\ written' = written \cup {"increment_invoice_analysis_counter"}
    /\ pc' = "done"
    /\ UNCHANGED <<csv_files, fi, ret, results, all_non_eu_items,
                   all_eu_items, all_po_numbers, all_invoice_numbers,
                   total_weight, all_missing_coo, file_issues, dark_mode>>
    /\ UNCHANGED analyzeVars
    /\ UNCHANGED exportVars

NoMessage == [non_eu |-> <<>>, reference |-> <<>>, weight |-> 0,
              box5 |-> <<>>, eu |-> <<>>, files |-> <<>>]

(***************************************************************************)
(* extract_csv_metadata and the loop of run_metadata_export                *)
(***************************************************************************)
\* "Error reading CSV: "
ReadErrorPrefix ==
    <<"E", "r", "r", "o", "r", " ", "r", "e", "a", "d", "i", "n", "g", " ",
      "C", "S", "V", ":", " ">>

\* the first row index of the PO/SO scan: lines[7:]
FirstOrderRow == 7

\* an SO value that is paired as it stands
SoNormalizedWhole(so_full) == so_full

\* main.py 334: so_full.split("-")[0].strip()
SoNormalized(so_full) == Strip(Split(so_full, "-")[1])

\* main.py 322-339: the loop over the rows from index 7 on, with the set seen
\* and the list po_so_pairs
RECURSIVE PoSoPairs(_, _, _)
PoSoPairs(rows, seen, po_so_pairs) ==
    IF rows = <<>> THEN po_so_pairs
    ELSE
    LET row == rows[1]
        po == CellOrDefault(row, 9, <<>>)
        so_full == CellOrDefault(row, 13, <<>>)
        key == <<po, SoNormalized(so_full)>>
    IN  IF row = <<>> \/ po = <<>> \/ so_full = <<>> \/ key \in seen
        THEN PoSoPairs(Tail(rows), seen, po_so_pairs)
        ELSE PoSoPairs(Tail(rows), seen \cup {key}, Append(po_so_pairs, key))

\* main.py 316-319: cell B of row k (0-based), trimmed, or ""
HeaderCell(rows, k) ==
    IF Len(rows) > k /\ Len(rows[k + 1]) > 1 THEN Strip(rows[k + 1][2])
    ELSE <<>>

\* a scan of the PO/SO pairs that starts at the first row of the file
extract_csv_metadata_all_rows(f) ==
    IF f.error # <<>>
    THEN [customer_name |-> <<>>, invoice_number |-> <<>>,
          po_so_pairs |-> <<>>, error |-> ReadErrorPrefix \o f.error]
    ELSE [customer_name |-> HeaderCell(f.rows, 1),
          invoice_number |-> HeaderCell(f.rows, 0),
          po_so_pairs |-> PoSoPairs(f.rows, {}, <<>>),
          error |-> <<>>]

\* main.py 305-346: the tuple extract_csv_metadata returns for a file; error
\* <<>> stands for None
extract_csv_metadata(f) ==
    IF f.error # <<>>
    THEN [customer_name |-> <<>>, invoice_number |-> <<>>,
          po_so_pairs |-> <<>>, error |-> ReadErrorPrefix \o f.error]
    ELSE [customer_name |-> HeaderCell(f.rows, 1),
          invoice_number |-> HeaderCell(f.rows, 0),
          po_so_pairs |->
              PoSoPairs(From(f.rows, FirstOrderRow + 1), {}, <<>>),
          error |-> <<>>]

NoMetadata == [customer_name |-> <<>>, invoice_number |-> <<>>,
               po_so_pairs |-> <<>>, error |-> <<>>]

\* main.py 748-754: unique_po_so_pairs, the pairs without repetitions in the
\* order of first occurrence
RECURSIVE UniquePairs(_, _, _)
UniquePairs(pairs, seen_pairs, unique_po_so_pairs) ==
    IF pairs = <<>> THEN unique_po_so_pairs
    ELSE IF pairs[1] \in seen_pairs
    THEN UniquePairs(Tail(pairs), seen_pairs, unique_po_so_pairs)
    ELSE UniquePairs(Tail(pairs), seen_pairs \cup {pairs[1]},
                     Append(unique_po_so_pairs, pairs[1]))

\* main.py 756-778: the worksheet rows of one file, numbered from counter on
\* (of the 16 cells the ones that vary)
SheetRows(counter, m) ==
    LET unique == UniquePairs(m.po_so_pairs, {}, <<>>)
    IN  [i \in 1..Len(unique) |->
            [lp |-> counter + i - 1, client |-> m.customer_name,
             inv |-> m.invoice_number, po |-> unique[i][1],
             so |-> unique[i][2]]]

\* main.py 1445-1453 and 734-778: with the Excel export enabled and a user
\* name given, run_metadata_export takes the CSV files one by one: it calls
\* extract_csv_metadata and appends a worksheet row for every pair
ExportFile ==
    /\ pc \in {"done", "export"}
    /\ exported < Len(csv_files)
    /\ metadata' = extract_csv_metadata(csv_files[exported + 1])
    /\ ws_rows' = ws_rows \o SheetRows(Len(ws_rows) + 1, metadata')
    /\ exported' = exported + 1
    /\ pc' = "export"
    /\ UNCHANGED <<csv_files, fi, ret, results>>
    /\ UNCHANGED analyzeVars
    /\ UNCHANGED batchVars
    /\ UNCHANGED prefsVars

\* main.py 1453: select_files returns: after a turned-down selection, after
\* the message when the export is disabled or its dialog is cancelled, after
\* the export, or by the exception that ended the batch; its locals are gone
\* and the window waits for the next event
SelectFilesReturns ==
    /\ \/ pc \in Rejections \cup {"done", "crashed"}
       \/ pc = "export" /\ exported = Len(csv_files)
    /\ pc' = "idle"
    /\ csv_files' = <<>>
    /\ fi' = 0
    /\ lines' = <<>>
    /\ ri' = 0
    /\ non_eu_items' = <<>>
    /\ eu_items' = <<>>
    /\ total_non_eu_weight' = 0
    /\ invoice_reference' = Unknown
    /\ box5_values' = {}
    /\ missing_coo_alerts' = <<>>
    /\ weight_value' = 0
    /\ ret' = NoReturn
    /\ results' = <<>>
    /\ all_non_eu_items' = <<>>
    /\ all_eu_items' = <<>>
    /\ all_po_numbers' = <<>>
    /\ all_invoice_numbers' = <<>>
    /\ total_weight' = 0
    /\ all_missing_coo' = <<>>
    /\ file_issues' = <<>>
    /\ exported' = 0
    /\ metadata' = NoMetadata
    /\ ws_rows' = <<>>
    /\ UNCHANGED message
    /\ UNCHANGED prefsVars

\* main.py 992-997: the theme button flips the flag and stores it
toggle_dark_mode ==
    /\ pc = "idle"
    /\ dark_mode' = ~dark_mode
    /\ prefs' = save_dark_mode_preference(prefs, dark_mode')
    /\ written' = written \cup {"save_dark_mode_preference"}
    /\ UNCHANGED <<pc, csv_files, fi, ret, results, analyses>>
    /\ UNCHANGED analyzeVars
    /\ UNCHANGED batchVars
    /\ UNCHANGED exportVars

\* main.py 999-1005: Shift-R resets the counter
handle_reset_shortcut ==
    /\ pc = "idle"
    /\ prefs' = reset_invoice_analysis_counter(prefs)
    /\ analyses' = 0
    /\ written' = written \cup {"reset_invoice_analysis_counter"}
    /\ UNCHANGED <<pc, csv_files, fi, ret, results, dark_mode>>
    /\ UNCHANGED analyzeVars
    /\ UNCHANGED batchVars
    /\ UNCHANGED exportVars

\* the state of the window before the first event, the preferences apart
InitLocals ==
    /\ pc = "idle"
    /\ csv_files = <<>>
    /\ fi = 0
    /\ lines = <<>>
    /\ ri = 0
    /\ non_eu_items = <<>>
    /\ eu_items = <<>>
    /\ total_non_eu_weight = 0
    /\ invoice_reference = Unknown
    /\ box5_values = {}
    /\ missing_coo_alerts = <<>>
    /\ weight_value = 0
    /\ ret = NoReturn
    /\ results = <<>>
    /\ all_non_eu_items = <<>>
    /\ all_eu_items = <<>>
    /\ all_po_numbers = <<>>
    /\ all_invoice_numbers = <<>>
    /\ total_weight = 0
    /\ all_missing_coo = <<>>
    /\ file_issues = <<>>
    /\ message = NoMessage
    /\ exported = 0
    /\ metadata = NoMetadata
    /\ ws_rows = <<>>

\* main.py 92-93 and 919: a first start; no preferences file exists and
\* _ensure_prefs_file_exists creates it
Init ==
    /\ InitLocals
    /\ prefs = ensure_prefs_file_exists(EmptyDict)
    /\ dark_mode = prefs["dark_mode"]
    /\ analyses = 0
    /\ written = {}

Next ==
    \/ SelectFiles
    \/ CallAnalyze
    \/ ProcessRow
    \/ ReturnResult
    \/ Aggregate
    \/ BuildMessage
    \/ ExportFile

Spec == Init /\ [][Next]_vars

(***************************************************************************)
(* The window over several events: selections, the theme button, Shift-R   *)
(***************************************************************************)
\* the largest number of selections that reach the message between resets
MaxAnalyses == 2

\* the keys a stored preferences file can hold: the two the program writes
\* and one it does not know
PrefsKeys == {"dark_mode", "invoice_analysis_count", "legacy"}

\* a preferences file left by earlier runs: any of the keys, the counter
\* holding the analyses of those runs
StoredPrefs(keys, dm, n) ==
    [k \in keys |-> IF k = "dark_mode" THEN dm
                    ELSE IF k = "invoice_analysis_count" THEN n
                    ELSE <<"x">>]

\* the selections of the window: one file with two PDFs of which one has a
\* decorated name and the other no BPID, a batch of two files, a file whose
\* batch ends by the exception, and the selections that are turned down
WindowSelections ==
    {[csv |-> <<1>>,
      pdf |-> <<Pdf(<<"I", "N", "V", "_", "P", "D", "F", "_", "D", "_", "a",
                     " ", "(", "1", ")", ".", "p", "d", "f">>, <<"B", "1">>),
                Pdf(<<"a", ".", "p", "d", "f">>, <<>>)>>],
     [csv |-> <<11, 1>>, pdf |-> MatchingPdfs(<<11, 1>>)],
     [csv |-> <<5>>, pdf |-> MatchingPdfs(<<5>>)]}
    \cup RejectedSelections

\* main.py 92-93 and 919: the start of the program on a stored preferences
\* file; initial_dark_mode is read from the file _ensure_prefs_file_exists
\* has completed
WindowInit ==
    /\ InitLocals
    /\ \E keys \in SUBSET PrefsKeys, dm \in BOOLEAN,
          n \in 0..(MaxAnalyses - 1) :
          /\ prefs = ensure_prefs_file_exists(StoredPrefs(keys, dm, n))
          /\ analyses = IF "invoice_analysis_count" \in keys THEN n ELSE 0
    /\ dark_mode = prefs["dark_mode"]
    /\ written = {}

\* select_files on a selection of the window
SelectFilesAgain ==
    /\ analyses < MaxAnalyses
    /\ \E sel \in WindowSelections : select_files(sel)

WindowNext ==
    \/ SelectFilesAgain
    \/ CallAnalyze
    \/ ProcessRow
    \/ ReturnResult
    \/ Aggregate
    \/ BuildMessage
    \/ ExportFile
    \/ SelectFilesReturns
    \/ toggle_dark_mode
    \/ handle_reset_shortcut

WindowSpec == WindowInit /\ [][WindowNext]_vars

(***************************************************************************)
(* The same files selected again in another order                          *)
(***************************************************************************)
\* the files that are selected twice: a.csv, the unreadable c.csv, d.csv,
\* j.csv, k.csv
ReorderedFiles == {1, 3, 4, 10, 11}

\* the largest number of CSV files in a batch that is selected twice
MaxReordered == 2

\* the batches of two or more of these files, in any order
ReorderedBatches ==
    UNION {{b \in [1..n -> ReorderedFiles] :
               \A i, j \in 1..n : i # j => b[i] # b[j]} : n \in 2..MaxReordered}

\* the names of the files of batch b
BatchNames(b) == [i \in 1..Len(b) |-> Pool[b[i]].name]

\* select_files on a first batch
SelectFirst ==
    /\ message = NoMessage
    /\ \E b \in ReorderedBatches :
          select_files([csv |-> b, pdf |-> MatchingPdfs(b)])

\* select_files on the files of the message shown, in any order
SelectReordered ==
    /\ message # NoMessage
    /\ analyses < MaxAnalyses
    /\ \E b \in ReorderedBatches :
          /\ Len(b) = Len(message.files)
          /\ ToSet(BatchNames(b)) = ToSet(message.files)
          /\ select_files([csv |-> b, pdf |-> MatchingPdfs(b)])

ReorderedNext ==
    \/ SelectFirst
    \/ SelectReordered
    \/ CallAnalyze
    \/ ProcessRow
    \/ ReturnResult
    \/ Aggregate
    \/ BuildMessage
    \/ SelectFilesReturns

ReorderedSpec == Init /\ [][ReorderedNext]_vars

(***************************************************************************)
(* Properties of analyze_invoice                                           *)
(***************************************************************************)
\* the row that the next ProcessRow step handles is an ITEM row
AtItemRow == pc = "rows" /\ ri < Len(lines) /\ ~RowIgnored(lines[ri + 1])

\* ... and its COO/weight field matches the pattern
AtMatchedRow == AtItemRow /\ Search(CooWeightField(lines[ri + 1])).ok

\* the display string of a matched row
DisplayString(row) ==
    CellOrDefault(row, 11, Unknown) \o CommaSpace
    \o CellOrDefault(row, 5, Unknown) \o CommaSpace
    \o CountryName(Upper(Search(CooWeightField(row)).coo))

\* C1: every ITEM row whose country/weight field matches the pattern adds its
\* display string to exactly one of eu_items and non_eu_items, and to
\* eu_items if and only if the uppercased code is in EU_CODES.
C1_Partition ==
    [][AtMatchedRow =>
         LET row == lines[ri + 1]
             code == Upper(Search(CooWeightField(row)).coo)
         IN  IF code \in EU_CODES
             THEN /\ eu_items' = Append(eu_items, DisplayString(row))
                  /\ non_eu_items' = non_eu_items
             ELSE /\ non_eu_items' = Append(non_eu_items, DisplayString(row))
                  /\ eu_items' = eu_items]_vars

\* the last row handled was a matched row, and by now a file has put items
\* on both sides
C1_Witness ==
    /\ pc = "rows"
    /\ ri > 0
    /\ ~RowIgnored(lines[ri])
    /\ Search(CooWeightField(lines[ri])).ok
    /\ eu_items # <<>>
    /\ non_eu_items # <<>>

\* C2: an ITEM row whose field does not match appends exactly one Missing COO
\* entry when the field contains a slash and nothing when it contains none
\* (the empty or absent field included); either way no item is added.
C2_Malformed ==
    [][(AtItemRow /\ ~Search(CooWeightField(lines[ri + 1])).ok) =>
         LET row == lines[ri + 1]
             raw == IF Len(row) > 16 THEN row[17] ELSE <<>>
         IN  /\ eu_items' = eu_items
             /\ non_eu_items' = non_eu_items
             /\ IF \E i \in 1..Len(raw) : raw[i] = "/"
                THEN /\ Len(missing_coo_alerts') = Len(missing_coo_alerts) + 1
                     /\ SubSeq(missing_coo_alerts', 1, Len(missing_coo_alerts))
                           = missing_coo_alerts
                     /\ StartsWith(
                           missing_coo_alerts'[Len(missing_coo_alerts')],
                           MissingCooPrefix)
                ELSE missing_coo_alerts' = missing_coo_alerts]_vars

\* a file in which one unmatched row with a slash was reported and unmatched
\* rows without a slash (an empty field, a field of text) were passed over
C2_Witness ==
    /\ pc = "rows"
    /\ Len(missing_coo_alerts) = 1
    /\ \E i, j \in 1..ri :
          /\ ~RowIgnored(lines[i]) /\ ~RowIgnored(lines[j])
          /\ CooWeightField(lines[i]) = <<>>
          /\ CooWeightField(lines[j]) # <<>>
          /\ ~Contains(CooWeightField(lines[j]), "/")
          /\ ~Search(CooWeightField(lines[j])).ok

GramUnits == { <<"G">>, <<"G", "R", "A", "M">>, <<"G", "R", "A", "M", "S">> }

KiloUnits == { <<"K", "G">>, <<"K", "G", "S">> }

\* C3: for a matched row the weight in kilograms is the numeric token divided
\* by 1000 when the unit is G, GRAM or GRAMS in any letter case, and the token
\* unchanged when the unit is KG or KGS; 2500 G is 2.5 and 10 KG is 10.
C3_WeightNormalization ==
    [][AtMatchedRow =>
         LET m == Search(CooWeightField(lines[ri + 1]))
             token == Remove(m.weight, <<",">>)
             unit == Upper(m.unit)
         IN  /\ unit \in GramUnits \cup KiloUnits
             /\ ~FloatRaises(token) =>
                   /\ unit \in GramUnits =>
                         weight_value' = Float(token, KgUnits) \div GramsPerKg
                   /\ unit \in KiloUnits =>
                         weight_value' = Float(token, KgUnits)
             /\ (token = <<"2", "5", "0", "0">> /\ unit = <<"G">>) =>
                   2 * weight_value' = 5 * KgUnits
             /\ (token = <<"1", "0">> /\ unit = <<"K", "G">>) =>
                   weight_value' = 10 * KgUnits]_vars

\* the last row handled carried "3 GRAMS" in lower or upper case and weighs
\* 0.003 kg
C3_Witness ==
    /\ pc = "rows"
    /\ ri > 0
    /\ ~RowIgnored(lines[ri])
    /\ Search(CooWeightField(lines[ri])).ok
    /\ Upper(Search(CooWeightField(lines[ri])).unit)
          = <<"G", "R", "A", "M", "S">>
    /\ weight_value = (3 * KgUnits) \div GramsPerKg

\* the weights of the matched non-EU ITEM rows of a file, added up
RECURSIVE NonEuWeightSum(_)
NonEuWeightSum(rows) ==
    IF rows = <<>> THEN 0
    ELSE LET row == rows[1]
             counts == /\ ~RowIgnored(row)
                       /\ Search(CooWeightField(row)).ok
                       /\ Upper(Search(CooWeightField(row)).coo) \notin EU_CODES
         IN  (IF counts THEN WeightValue(Search(CooWeightField(row))) ELSE 0)
             + NonEuWeightSum(Tail(rows))

\* C4: the non-EU weight analyze_invoice returns is the sum of the weights of
\* exactly the matched non-EU ITEM rows, rounded to 3 decimals once after the
\* summation; 1.0005 kg and 2.0005 kg give 3.001.
C4_RoundedOnce ==
    (pc = "returned" /\ ~ret.raised) =>
        /\ ret.weight = Round3(NonEuWeightSum(csv_files[fi + 1].rows))
        /\ csv_files[fi + 1] = FileB => 1000 * ret.weight = 3001 * KgUnits

\* the file with 1.0005 kg and 2.0005 kg has returned 3.001, which no rounding
\* of the single weights gives
C4_Witness ==
    /\ pc = "returned"
    /\ csv_files[fi + 1] = FileB
    /\ 1000 * ret.weight = 3001 * KgUnits
    /\ Round3(NonEuWeightSum(<<FileB.rows[2]>>))
         + Round3(NonEuWeightSum(<<FileB.rows[3]>>)) # ret.weight

\* C5: analyze_invoice never propagates an exception; when reading the file
\* fails it returns empty item lists, weight 0.0, "Unknown" for both
\* references and exactly one alert, which carries the error text.
C5_NoException ==
    /\ ~ret.raised
    /\ (pc = "returned" /\ csv_files[fi + 1].error # <<>>) =>
          /\ ret.non_eu = <<>>
          /\ ret.eu = <<>>
          /\ ret.weight = 0
          /\ ret.box5 = Unknown
          /\ ret.invoice = Unknown
          /\ Len(ret.alerts) = 1
          /\ LET e == csv_files[fi + 1].error
                 a == ret.alerts[1]
             IN  /\ Len(a) >= Len(e)
                 /\ SubSeq(a, Len(a) - Len(e) + 1, Len(a)) = e

\* analyze_invoice has returned for a file that could not be read
C5_Witness ==
    /\ pc = "returned"
    /\ csv_files[fi + 1].error # <<>>
    /\ ~ret.raised
    /\ Len(ret.alerts) = 1

(***************************************************************************)
(* Properties of the batch step of select_files                            *)
(***************************************************************************)
\* file k of the batch could not be read
Failed(k) == csv_files[k].error # <<>>

\* str.endswith(suffix)
EndsWith(s, suffix) ==
    /\ Len(s) >= Len(suffix)
    /\ SubSeq(s, Len(s) - Len(suffix) + 1, Len(s)) = suffix

\* the line of a numbered section that shows item under number n
NumberedLine(n, item) == IntToStr(n) \o <<".", " ">> \o item \o <<"\n">>

\* item is listed in the numbered section
Listed(section, item) ==
    \E n \in 1..Len(section) : section[n] = NumberedLine(n, item)

\* the references of a comma-joined line, in order
RefList(line) ==
    LET pieces == Split(line, ",")
    IN  [i \in 1..Len(pieces) |-> Strip(pieces[i])]

RECURSIVE WeightSum(_)
WeightSum(rs) ==
    IF rs = <<>> THEN 0 ELSE rs[1].weight + WeightSum(Tail(rs))

\* C6: a file that cannot be opened does not abort the batch: the batch never
\* stops at such a file, every other file is still analyzed, the summary
\* holds the items, weight and references of the other files, and the file
\* issues hold an entry for the failed file that carries its error text.
C6_Resilience ==
    /\ pc = "crashed" => ~Failed(fi + 1)
    /\ pc = "done" =>
          \A k \in 1..Len(csv_files) : Failed(k) =>
             /\ Len(results) = Len(csv_files)
             /\ \E n \in 1..Len(file_issues) :
                   /\ StartsWith(file_issues[n], csv_files[k].name)
                   /\ EndsWith(file_issues[n], csv_files[k].error)
             /\ message.weight = Round3(WeightSum(results))
             /\ \A i \in 1..Len(csv_files) : ~Failed(i) =>
                   /\ \A n \in 1..Len(results[i].non_eu) :
                         Listed(message.non_eu, results[i].non_eu[n])
                   /\ \A n \in 1..Len(results[i].eu) :
                         Listed(message.eu, results[i].eu[n])
                   /\ results[i].invoice # Unknown =>
                         ToSet(RefList(results[i].invoice))
                            \subseteq ToSet(RefList(message.reference))
                   /\ results[i].box5 # Unknown =>
                         ToSet(RefList(results[i].box5))
                            \subseteq ToSet(RefList(message.box5))

\* a batch of an unreadable file followed by a file with items of both kinds
\* and references has been completed
C6_Witness ==
    /\ pc = "done"
    /\ Len(csv_files) = 2
    /\ Failed(1)
    /\ ~Failed(2)
    /\ results[2].non_eu # <<>>
    /\ results[2].eu # <<>>
    /\ results[2].weight > 0
    /\ results[2].invoice # Unknown
    /\ results[2].box5 # Unknown
    /\ file_issues # <<>>

\* C7: the batch step completes and produces the message for every sequence of
\* per-file results, whatever the malformed entries hold (a line-number cell
\* of whitespace only, a description with a line break): no exception
\* escapes the aggregation.
C7_NoExceptionEscapes == pc # "crashed"

\* the display strings of the matched non-EU ITEM rows, in row order
RECURSIVE NonEuStrings(_)
NonEuStrings(rows) ==
    IF rows = <<>> THEN <<>>
    ELSE LET row == rows[1]
             counts == /\ ~RowIgnored(row)
                       /\ Search(CooWeightField(row)).ok
                       /\ Upper(Search(CooWeightField(row)).coo) \notin EU_CODES
         IN  (IF counts THEN <<DisplayString(row)>> ELSE <<>>)
             \o NonEuStrings(Tail(rows))

\* ... of all files of a batch, in file order
RECURSIVE BatchNonEu(_)
BatchNonEu(files) ==
    IF files = <<>> THEN <<>>
    ELSE (IF files[1].error # <<>> THEN <<>>
          ELSE NonEuStrings(files[1].rows))
         \o BatchNonEu(Tail(files))

RECURSIVE NonEuCount(_)
NonEuCount(rs) ==
    IF rs = <<>> THEN 0 ELSE Len(rs[1].non_eu) + NonEuCount(Tail(rs))

\* C8: the "Non-EU items" section lists the non-EU display strings of all
\* files in file order and, within a file, in row order, duplicates kept,
\* numbered 1..n; its length is the sum of the per-file list lengths.
C8_NonEuSection ==
    pc = "done" =>
        LET expected == BatchNonEu(csv_files)
        IN  /\ Len(message.non_eu) = Len(expected)
            /\ Len(message.non_eu) = NonEuCount(results)
            /\ \A n \in 1..Len(expected) :
                  message.non_eu[n] = NumberedLine(n, expected[n])

\* a completed batch of two files that both list the same non-EU string, which
\* is shown twice
C8_Witness ==
    /\ pc = "done"
    /\ Len(csv_files) = 2
    /\ results[1].non_eu # <<>>
    /\ results[2].non_eu # <<>>
    /\ \E i, j \in 1..Len(message.non_eu) :
          /\ i < j
          /\ \E item \in ToSet(all_non_eu_items) :
                /\ message.non_eu[i] = NumberedLine(i, item)
                /\ message.non_eu[j] = NumberedLine(j, item)

\* the EU display strings that the files of the batch returned
BatchEu == UNION {ToSet(results[i].eu) : i \in 1..Len(results)}

\* C9: the "EU items" section holds each distinct EU display string found in
\* any file exactly once, in ascending order (the order of Python's sorted():
\* by code point), numbered from 1, however often and in whatever file or row
\* order the string occurred.
C9_EuSection ==
    pc = "done" =>
        /\ Len(message.eu) = Cardinality(BatchEu)
        /\ \A item \in BatchEu :
              Cardinality({n \in 1..Len(message.eu) :
                              message.eu[n] = NumberedLine(n, item)}) = 1
        /\ \A n \in 1..Len(message.eu) :
              \E item \in BatchEu : message.eu[n] = NumberedLine(n, item)
        /\ \A m, n \in 1..Len(message.eu) : \A a, b \in BatchEu :
              (/\ m < n
               /\ message.eu[m] = NumberedLine(m, a)
               /\ message.eu[n] = NumberedLine(n, b)) => StrLess(a, b)

\* a completed batch in which an EU string occurred more than once and the
\* strings were not met in ascending order
C9_Witness ==
    /\ pc = "done"
    /\ Len(message.eu) >= 2
    /\ Len(all_eu_items) > Len(message.eu)
    /\ \E n \in 2..Len(all_eu_items) : StrLess(all_eu_items[n], all_eu_items[1])

\* the PO/Box references collected from the ITEM rows of the readable files
BatchRefs ==
    UNION {{Strip(csv_files[i].rows[r][10]) :
               r \in {q \in 1..Len(csv_files[i].rows) :
                         /\ ~RowIgnored(csv_files[i].rows[q])
                         /\ Len(csv_files[i].rows[q]) > 9
                         /\ Strip(csv_files[i].rows[q][10]) # <<>>}} :
           i \in {k \in 1..Len(csv_files) : ~Failed(k)}}

\* C10: every distinct PO/Box reference collected from the files of a batch
\* appears in the Box 5 line exactly once, also when the same reference occurs
\* in several files together with other references.
C10_Box5Deduplicated ==
    pc = "done" =>
        \A ref \in BatchRefs :
           Cardinality({n \in 1..Len(RefList(message.box5)) :
                           RefList(message.box5)[n] = ref}) = 1

\* the invoice references that the files of the batch returned, "Unknown" left
\* out
BatchInvoices ==
    {results[i].invoice : i \in 1..Len(results)} \ {Unknown}

\* C11: the Reference line of the message is the sorted, comma-joined set of
\* the distinct per-file invoice references other than "Unknown" (a reference
\* shared by files appears once); it is "Unknown" when no file supplied one,
\* and a failed or reference-less file never adds "Unknown" to other references.
C11_InvoiceList ==
    pc = "done" =>
        /\ BatchInvoices = {} => message.reference = Unknown
        /\ BatchInvoices # {} =>
              /\ message.reference = Join(Sorted(BatchInvoices), CommaSpace)
              /\ Len(RefList(message.reference)) = Cardinality(BatchInvoices)
              /\ \A n \in 1..Len(RefList(message.reference)) :
                    RefList(message.reference)[n] # Unknown
              /\ \A m, n \in 1..Len(RefList(message.reference)) :
                    m < n => StrLess(RefList(message.reference)[m],
                                     RefList(message.reference)[n])

\* a completed batch of two files that returned the same invoice reference,
\* which the Reference line shows once
C11_Witness ==
    /\ pc = "done"
    /\ Len(results) = 2
    /\ results[1].invoice = results[2].invoice
    /\ results[1].invoice # Unknown
    /\ message.reference = results[1].invoice

\* 10^-3 kg in weight units
Milli == KgUnits \div Pow10(RoundDigits)

\* r is x rounded to 3 decimals: a multiple of 10^-3 kg that is nearest to x
Nearest(x, r) ==
    /\ r % Milli = 0
    /\ 2 * (x - r) <= Milli
    /\ 2 * (r - x) <= Milli

\* the unrounded non-EU weight of a file
FileWeight(f) == IF f.error # <<>> THEN 0 ELSE NonEuWeightSum(f.rows)

\* C12: the weight of the message is the sum of the per-file non-EU totals,
\* each already rounded to 3 decimals by analyze_invoice, rounded again to 3
\* decimals; files of 4.0004 kg and 0.0123 kg give 4.0 + 0.012 = 4.012.
C12_RoundedTwice ==
    pc = "done" =>
        /\ \A i \in 1..Len(csv_files) :
              Nearest(FileWeight(csv_files[i]), results[i].weight)
        /\ Nearest(WeightSum(results), message.weight)
        /\ csv_files = <<FileJ, FileK>> =>
              1000 * message.weight = 4012 * KgUnits

\* a completed batch of two files whose weight differs from the unrounded
\* total of the two files rounded once
C12_Witness ==
    /\ pc = "done"
    /\ Len(csv_files) = 2
    /\ results[1].weight > 0
    /\ results[2].weight > 0
    /\ ~Nearest(FileWeight(csv_files[1]) + FileWeight(csv_files[2]),
                message.weight)

\* the codes with a name in the tables of analyze_invoice (main.py 261-266)
OverrideCodes == {<<"M", "X">>, <<"M", "Y">>, <<"P", "L">>, <<"K", "R">>}

\* the code has a name neither in the override tables nor in the ISO table
UnknownCode(code) == code \notin OverrideCodes /\ PyCountryName(code) = <<>>

\* C14: a matched row whose code is in neither table gets the uppercased code
\* itself as country name in its display string, is classified as non-EU and
\* has its weight added to the non-EU total.
C14_UnknownCode ==
    [][(AtMatchedRow
        /\ UnknownCode(Upper(Search(CooWeightField(lines[ri + 1])).coo))) =>
         LET row == lines[ri + 1]
             code == Upper(Search(CooWeightField(row)).coo)
         IN  /\ non_eu_items' =
                   Append(non_eu_items,
                          CellOrDefault(row, 11, Unknown) \o CommaSpace
                          \o CellOrDefault(row, 5, Unknown) \o CommaSpace
                          \o code)
             /\ eu_items' = eu_items
             /\ total_non_eu_weight' = total_non_eu_weight + weight_value'
             /\ missing_coo_alerts' = missing_coo_alerts]_vars

\* the last row handled carried the code ZZ, which is in no table, and a
\* weight that is now part of the non-EU total
C14_Witness ==
    /\ pc = "rows"
    /\ ri > 0
    /\ ~RowIgnored(lines[ri])
    /\ Search(CooWeightField(lines[ri])).ok
    /\ UnknownCode(Upper(Search(CooWeightField(lines[ri])).coo))
    /\ non_eu_items # <<>>
    /\ EndsWith(non_eu_items[Len(non_eu_items)], <<",", " ", "Z", "Z">>)
    /\ weight_value > 0
    /\ total_non_eu_weight >= weight_value

\* C15: every weight of the pipeline is non-negative in every reachable
\* state: the weight of a row, the running non-EU total, the total returned
\* for a file and the batch total, as accumulated and as shown.
C15_NonNegative ==
    /\ weight_value >= 0
    /\ total_non_eu_weight >= 0
    /\ ret.weight >= 0
    /\ \A i \in 1..Len(results) : results[i].weight >= 0
    /\ total_weight >= 0
    /\ message.weight >= 0

\* a batch has been completed with a positive weight although a row of its
\* last file wrote a minus sign before the number, which the pattern rejects
C15_Witness ==
    /\ pc = "done"
    /\ message.weight > 0
    /\ \E r \in 1..Len(lines) :
          /\ ~RowIgnored(lines[r])
          /\ Contains(CooWeightField(lines[r]), "-")
          /\ ~Search(CooWeightField(lines[r])).ok

\* the trimmed, non-empty values of column index 9 in the rows of a file
\* that satisfy keep
ColumnRefs(rows, keep(_)) ==
    {Strip(rows[r][10]) :
        r \in {q \in 1..Len(rows) :
                  /\ keep(rows[q])
                  /\ Len(rows[q]) > 9
                  /\ Strip(rows[q][10]) # <<>>}}

\* the Box 5 reference made of a set of values
JoinedRefs(refs) ==
    IF refs = {} THEN Unknown ELSE Join(Sorted(refs), CommaSpace)

AnyRow(row) == TRUE

ItemRow(row) == ~RowIgnored(row)

\* C16 as stated: the Box 5 reference of a file is the sorted, comma-joined
\* set of the trimmed, non-empty values of column index 9 of every row of the
\* file, or "Unknown" when the set is empty.
C16_Box5EveryRow ==
    (pc = "returned" /\ csv_files[fi + 1].error = <<>>) =>
        ret.box5 = JoinedRefs(ColumnRefs(csv_files[fi + 1].rows, AnyRow))

\* C16 amended: the Box 5 reference of a file is the sorted, comma-joined set
\* of the trimmed, non-empty values of column index 9 of every ITEM row of the
\* file, or "Unknown" when the set is empty; rows that are not ITEM rows do
\* not contribute.
C16_Box5ItemRows ==
    (pc = "returned" /\ csv_files[fi + 1].error = <<>>) =>
        ret.box5 = JoinedRefs(ColumnRefs(csv_files[fi + 1].rows, ItemRow))

\* analyze_invoice has returned a Box 5 reference of two values, met in
\* descending order, for a file in which a row that is no ITEM row carries a
\* further value
C16_Witness ==
    /\ pc = "returned"
    /\ csv_files[fi + 1].error = <<>>
    /\ Cardinality(ColumnRefs(lines, ItemRow)) = 2
    /\ ColumnRefs(lines, AnyRow) # ColumnRefs(lines, ItemRow)
    /\ ret.box5 = <<"P", "O", "1", ",", " ", "P", "O", "3">>

\* the first cell of the row, trimmed, without leading BOM and in upper case,
\* is "ITEM"
FirstCellIsItem(row) ==
    /\ row # <<>>
    /\ Upper(LStripBom(Strip(row[1]))) = <<"I", "T", "E", "M">>

\* C17: only ITEM rows are processed: the step over a row with any other
\* first cell, or over an empty row, changes neither the item lists, the
\* non-EU total, the Box 5 set nor the list of alerts, and the loop goes on.
C17_OnlyItemRows ==
    [][(pc = "rows" /\ ri < Len(lines) /\ ~FirstCellIsItem(lines[ri + 1])) =>
         /\ non_eu_items' = non_eu_items
         /\ eu_items' = eu_items
         /\ total_non_eu_weight' = total_non_eu_weight
         /\ box5_values' = box5_values
         /\ missing_coo_alerts' = missing_coo_alerts
         /\ pc' = "rows"
         /\ ri' = ri + 1]_vars

\* the last row handled is no ITEM row although it carries a value in column
\* 9 and a country/weight field with a slash; the value is not in the Box 5
\* set and nothing was reported
C17_Witness ==
    /\ pc = "rows"
    /\ ri > 0
    /\ ~FirstCellIsItem(lines[ri])
    /\ Len(lines[ri]) > 16
    /\ Strip(lines[ri][10]) # <<>>
    /\ Strip(lines[ri][10]) \notin box5_values
    /\ Contains(lines[ri][17], "/")
    /\ ~Search(lines[ri][17]).ok
    /\ missing_coo_alerts = <<>>

\* what the catalog number (k = 11) and the description (k = 5) of a row may
\* be: the trimmed cell when the cell is present and not empty, "Unknown" when
\* it is absent or empty, and never the empty string
RowTexts(row, k) ==
    LET raw == IF Len(row) > k THEN row[k + 1] ELSE <<>>
    IN  {x \in {Strip(raw), Unknown} :
            /\ x # <<>>
            /\ raw = <<>> => x = Unknown
            /\ Strip(raw) # <<>> => x = Strip(raw)}

\* C18: the catalog number and the description in the display string or the
\* malformed entry of an ITEM row are the trimmed cell when the cell is
\* present and non-empty and "Unknown" when it is absent or empty; they are
\* never empty, also for a cell of whitespace only or a short row.
C18_TextDefaults ==
    [][AtItemRow =>
         LET row == lines[ri + 1]
             field == CooWeightField(row)
         IN  \E catalog \in RowTexts(row, 11), description \in RowTexts(row, 5) :
                /\ eu_items' # eu_items =>
                      eu_items'[Len(eu_items')] =
                         ItemText(catalog, description,
                                  CountryName(Upper(Search(field).coo)))
                /\ non_eu_items' # non_eu_items =>
                      non_eu_items'[Len(non_eu_items')] =
                         ItemText(catalog, description,
                                  CountryName(Upper(Search(field).coo)))
                /\ missing_coo_alerts' # missing_coo_alerts =>
                      missing_coo_alerts'[Len(missing_coo_alerts')] =
                         MissingCooAlert(CellOrDefault(row, 1, Unknown),
                                         catalog, description,
                                         WeightInfo(field))]_vars

\* cell (row 0, column 1) of a file, trimmed; <<>> when the file has no rows
\* or row 0 has fewer than two cells
CellB1(rows) ==
    IF Len(rows) > 0 /\ Len(rows[1]) > 1 THEN Strip(rows[1][2]) ELSE <<>>

\* C19: the invoice reference analyze_invoice returns is the trimmed cell
\* (row 0, column 1) when that is non-empty, whatever cell (row 0, column 0)
\* holds (the fallback re-reads the same cell), and "Unknown" when the cell
\* is empty, the file has no rows or row 0 has fewer than two cells; it is
\* never the empty string.
C19_InvoiceReference ==
    (pc = "returned" /\ csv_files[fi + 1].error = <<>>) =>
        /\ ret.invoice # <<>>
        /\ CellB1(csv_files[fi + 1].rows) # <<>> =>
              ret.invoice = CellB1(csv_files[fi + 1].rows)
        /\ CellB1(csv_files[fi + 1].rows) = <<>> => ret.invoice = Unknown

\* analyze_invoice has returned the text of cell (row 0, column 1) for a file
\* whose first row is an ITEM row, with none of HEADER, INVOICE, INV in its
\* first cell
C19_Witness ==
    /\ pc = "returned"
    /\ csv_files[fi + 1].error = <<>>
    /\ Len(lines) > 0
    /\ Len(lines[1]) > 1
    /\ Norm(lines[1][1]) = ITEM
    /\ ret.invoice = Strip(lines[1][2])
    /\ ret.invoice # Unknown

\* the numeric token, commas removed, is no number: it has more than one
\* decimal point or no digit
BadNumber(token) ==
    LET t == Remove(token, <<",">>)
    IN  \/ Cardinality({i \in 1..Len(t) : t[i] = "."}) >= 2
        \/ \A i \in 1..Len(t) : ~IsDigit(t[i])

\* C20: when the field matches the pattern but the numeric token is no number
\* ("1.2.3", "."), the weight is taken as 0.0 and the row is still
\* classified: its display string goes to the EU or the non-EU list, nothing
\* is reported as malformed, the total is unchanged and the loop goes on.
C20_BadNumber ==
    [][(AtMatchedRow
        /\ BadNumber(Search(CooWeightField(lines[ri + 1])).weight)) =>
         LET row == lines[ri + 1]
             code == Upper(Search(CooWeightField(row)).coo)
         IN  /\ weight_value' = 0
             /\ total_non_eu_weight' = total_non_eu_weight
             /\ IF code \in EU_CODES
                THEN /\ eu_items' = Append(eu_items, DisplayString(row))
                     /\ non_eu_items' = non_eu_items
                ELSE /\ non_eu_items' = Append(non_eu_items, DisplayString(row))
                     /\ eu_items' = eu_items
             /\ missing_coo_alerts' = missing_coo_alerts
             /\ pc' = "rows"
             /\ ri' = ri + 1]_vars

\* the rows of a file are done: an EU row and a non-EU row with tokens that
\* are no numbers were classified, a later row added its weight, and nothing
\* was reported
C20_Witness ==
    /\ pc = "rows"
    /\ ri = Len(lines)
    /\ \E i, j, k \in 1..ri :
          /\ i < k /\ j < k
          /\ \A r \in {i, j, k} :
                ~RowIgnored(lines[r]) /\ Search(CooWeightField(lines[r])).ok
          /\ BadNumber(Search(CooWeightField(lines[i])).weight)
          /\ BadNumber(Search(CooWeightField(lines[j])).weight)
          /\ Upper(Search(CooWeightField(lines[i])).coo) \in EU_CODES
          /\ Upper(Search(CooWeightField(lines[j])).coo) \notin EU_CODES
          /\ ~BadNumber(Search(CooWeightField(lines[k])).weight)
    /\ Len(eu_items) = 1
    /\ Len(non_eu_items) = 2
    /\ total_non_eu_weight > 0
    /\ missing_coo_alerts = <<>>

(***************************************************************************)
(* Properties of the batch malformed list                                  *)
(***************************************************************************)
\* the file-name marker line of a file
MarkerLine(name) == <<"<doc>", " ">> \o name

\* the malformed entries that the analyzer returned for file k, in row order
MalformedOf(k) == Misses(results[k].alerts)

\* what the batch list is expected to hold for file k: nothing when the file
\* has no malformed entry; otherwise one marker line when the batch has more
\* than one CSV file, then one line per entry in the order of the entries
ExpectedBlock(k) ==
    LET ms == MalformedOf(k)
    IN  IF ms = <<>> THEN <<>>
        ELSE (IF Len(csv_files) > 1 THEN <<MarkerLine(csv_files[k].name)>>
              ELSE <<>>)
             \o [i \in 1..Len(ms) |->
                    MissingLine(ParseParts(AlertParts(ms[i]), NoFields))]

\* the expected blocks of the first n files, in file-processing order
RECURSIVE ExpectedList(_)
ExpectedList(n) ==
    IF n = 0 THEN <<>> ELSE ExpectedList(n - 1) \o ExpectedBlock(n)

\* C21: at every point of a batch that has not been aborted, the batch
\* malformed list is the concatenation, in file-processing order, of the
\* blocks of the files aggregated so far; the block of a file holds its
\* entries in row order, preceded by exactly one file-name marker line when
\* the batch has more than one CSV file, and by no marker line when the batch
\* has a single CSV file; a file without malformed entries has no block.
C21_MalformedListOrder ==
    pc # "crashed" => all_missing_coo = ExpectedList(fi)

\* a batch of two files was completed in which both files have malformed
\* entries and one of them has several
C21_Witness ==
    /\ pc = "done"
    /\ Len(csv_files) = 2
    /\ Len(MalformedOf(1)) >= 2
    /\ Len(MalformedOf(2)) >= 1
    /\ Len(all_missing_coo) = Len(MalformedOf(1)) + Len(MalformedOf(2)) + 2

\* the rows of file k for which analyze_invoice produced a malformed entry:
\* ITEM rows whose field holds a "/" and does not match the pattern
MalformedRows(k) ==
    {r \in 1..Len(csv_files[k].rows) :
        /\ FirstCellIsItem(csv_files[k].rows[r])
        /\ Contains(CooWeightField(csv_files[k].rows[r]), "/")
        /\ ~Search(CooWeightField(csv_files[k].rows[r])).ok}

\* the line "Line L <dash> C, D, W" of the four values of a malformed entry
HandedOverLine(row) ==
    <<"L", "i", "n", "e", " ">> \o CellOrDefault(row, 1, Unknown)
    \o <<" ", "<dash>", " ">> \o CellOrDefault(row, 11, Unknown)
    \o CommaSpace \o CellOrDefault(row, 5, Unknown)
    \o CommaSpace \o WeightInfo(CooWeightField(row))

\* select_files is done with file k: it has aggregated it or was ended by an
\* exception while it did
HandedOver(k) == k <= fi \/ (pc = "crashed" /\ k = fi + 1)

\* C24: once select_files is done with a file that was analyzed without an
\* error, the batch list holds, for every malformed entry of the file with
\* line number L, catalog C, description D and weight text W, the line
\* "Line L <dash> C, D, W" with exactly those four values.
C24_FaithfulHandOver ==
    \A k \in 1..Len(results) :
        (HandedOver(k) /\ ~results[k].raised /\ Errs(results[k].alerts) = <<>>)
        => \A r \in MalformedRows(k) :
              \E n \in 1..Len(all_missing_coo) :
                 all_missing_coo[n] = HandedOverLine(csv_files[k].rows[r])

(***************************************************************************)
(* Properties of extract_csv_metadata                                      *)
(***************************************************************************)
\* the rows of a file that the PO/SO scan pairs: from row index 7 on, with a
\* PO cell (column 9) and an SO cell (column 13) that are not empty
OrderRows(f) ==
    {r \in (FirstOrderRow + 1)..Len(f.rows) :
        /\ Len(f.rows[r]) > 13
        /\ Strip(f.rows[r][10]) # <<>>
        /\ Strip(f.rows[r][14]) # <<>>}

\* the text before the first "-" of an SO value, trimmed
SoPrefix(so_full) ==
    Strip(SubSeq(Strip(so_full), 1, FindChar(Strip(so_full), "-", 1) - 1))

\* the (PO, SO prefix) pair of row r
RowPair(f, r) == <<Strip(f.rows[r][10]), SoPrefix(f.rows[r][14])>>

\* the first row of the scan that carries the pair
FirstRowOf(f, pair) ==
    CHOOSE r \in OrderRows(f) :
        /\ RowPair(f, r) = pair
        /\ \A q \in OrderRows(f) : RowPair(f, q) = pair => r <= q

\* C13: extract_csv_metadata truncates the SO value at its first "-" before
\* pairing; po_so_pairs holds each (PO, normalized SO) pair of the scanned
\* rows once, in the order of first occurrence, so rows with the same PO and
\* the same SO prefix but different suffixes yield a single pair.
C13_PoSoPairs ==
    (pc = "export" /\ metadata.error = <<>>) =>
        LET f == csv_files[exported]
            pairs == metadata.po_so_pairs
        IN  /\ \A i, j \in 1..Len(pairs) : i # j => pairs[i] # pairs[j]
            /\ \A i \in 1..Len(pairs) : ~Contains(pairs[i][2], "-")
            /\ ToSet(pairs) = {RowPair(f, r) : r \in OrderRows(f)}
            /\ \A i, j \in 1..Len(pairs) :
                  i < j => FirstRowOf(f, pairs[i]) < FirstRowOf(f, pairs[j])

\* the metadata of a file in which two scanned rows have the same PO and SO
\* values that differ only after the "-", and further pairs follow
C13_Witness ==
    /\ pc = "export"
    /\ Len(metadata.po_so_pairs) > 1
    /\ LET f == csv_files[exported]
       IN  \E q, r \in OrderRows(f) :
              /\ q < r
              /\ RowPair(f, q) = RowPair(f, r)
              /\ Strip(f.rows[q][14]) # Strip(f.rows[r][14])
              /\ RowPair(f, q) = metadata.po_so_pairs[1]

\* the trimmed cell of column k (0-based) of a row, "" when absent
TrimmedCell(row, k) == IF Len(row) > k THEN Strip(row[k + 1]) ELSE <<>>

\* row r (1-based) of the file lies at index 7 or later and has a PO in
\* column 9 and an SO in column 13 that are not empty once trimmed
PairedRow(f, r) ==
    /\ r > 7
    /\ r <= Len(f.rows)
    /\ TrimmedCell(f.rows[r], 9) # <<>>
    /\ TrimmedCell(f.rows[r], 13) # <<>>

\* C22: every pair that extract_csv_metadata returns comes from a row at
\* index 7 or later whose trimmed column 9 is the PO of the pair and whose
\* trimmed column 13 is a non-empty raw SO that normalizes to the SO of the
\* pair; rows 0-6 and rows with an absent or empty PO or SO contribute
\* nothing, every other row contributes its pair, and no pair has an empty
\* PO.
C22_PairsFromOrderRows ==
    (pc = "export" /\ metadata.error = <<>>) =>
        LET f == csv_files[exported]
            pairs == metadata.po_so_pairs
        IN  /\ \A i \in 1..Len(pairs) :
                  /\ pairs[i][1] # <<>>
                  /\ \E r \in 1..Len(f.rows) :
                        /\ PairedRow(f, r)
                        /\ pairs[i][1] = TrimmedCell(f.rows[r], 9)
                        /\ pairs[i][2] = SoPrefix(TrimmedCell(f.rows[r], 13))
            /\ \A r \in 1..Len(f.rows) :
                  PairedRow(f, r) =>
                     \E i \in 1..Len(pairs) :
                        pairs[i] = <<TrimmedCell(f.rows[r], 9),
                                     SoPrefix(TrimmedCell(f.rows[r], 13))>>

\* the metadata of a file that has a row before index 7 with a PO and an SO
\* that no later row repeats, rows from index 7 on that lack the PO or the SO,
\* and rows that are paired
C22_Witness ==
    /\ pc = "export"
    /\ metadata.error = <<>>
    /\ metadata.po_so_pairs # <<>>
    /\ LET f == csv_files[exported]
       IN  /\ \E r \in 1..7 :
                 /\ r <= Len(f.rows)
                 /\ TrimmedCell(f.rows[r], 9) # <<>>
                 /\ TrimmedCell(f.rows[r], 13) # <<>>
                 /\ \A i \in 1..Len(metadata.po_so_pairs) :
                       metadata.po_so_pairs[i][1] # TrimmedCell(f.rows[r], 9)
           /\ \E r \in 8..Len(f.rows) :
                 /\ TrimmedCell(f.rows[r], 9) # <<>>
                 /\ TrimmedCell(f.rows[r], 13) = <<>>
           /\ \E r \in 8..Len(f.rows) :
                 /\ TrimmedCell(f.rows[r], 9) = <<>>
                 /\ TrimmedCell(f.rows[r], 13) # <<>>

(***************************************************************************)
(* Properties of the preferences file                                      *)
(***************************************************************************)
\* the step leaves every key of the stored dictionary but key as it was:
\* present or absent as before, with the value it had
OtherKeysKept(key) ==
    \A k \in ((DOMAIN prefs) \cup (DOMAIN prefs')) \ {key} :
        /\ k \in DOMAIN prefs
        /\ k \in DOMAIN prefs'
        /\ prefs'[k] = prefs[k]

\* the stored counter, 0 when the key is absent
StoredCount(p) ==
    IF "invoice_analysis_count" \in DOMAIN p
    THEN p["invoice_analysis_count"] ELSE 0

\* the steps in which a preference writer is called
ThemeStep == dark_mode' # dark_mode
IncrementStep == pc = "loop" /\ pc' = "done"
ResetStep == pc = "idle" /\ pc' = "idle" /\ dark_mode' = dark_mode

\* C23: in every step of every run, the theme writer stores the new theme
\* flag under dark_mode and leaves every other key, invoice_analysis_count
\* included, as it was; the increment stores the counter raised by one and
\* the reset stores 0 under invoice_analysis_count, and both leave dark_mode
\* and every other key as they were; no other step changes the file.
C23_OwnKeyOnly ==
    [][/\ ThemeStep =>
             /\ prefs'["dark_mode"] = dark_mode'
             /\ OtherKeysKept("dark_mode")
       /\ IncrementStep =>
             /\ StoredCount(prefs') = StoredCount(prefs) + 1
             /\ OtherKeysKept("invoice_analysis_count")
       /\ ResetStep =>
             /\ "invoice_analysis_count" \in DOMAIN prefs'
             /\ StoredCount(prefs') = 0
             /\ OtherKeysKept("invoice_analysis_count")
       /\ ~(ThemeStep \/ IncrementStep \/ ResetStep) =>
             /\ DOMAIN prefs' = DOMAIN prefs
             /\ \A k \in DOMAIN prefs : prefs'[k] = prefs[k]]_vars

\* all three writers have been called on a file that holds a key the program
\* does not know besides its own two, and the theme differs from the default
C23_Witness ==
    /\ written = {"save_dark_mode_preference",
                  "increment_invoice_analysis_counter",
                  "reset_invoice_analysis_counter"}
    /\ DOMAIN prefs = PrefsKeys
    /\ prefs["dark_mode"] = FALSE
    /\ prefs["invoice_analysis_count"] = 1

\* C26: after any sequence of selections and Shift-R resets the stored
\* invoice_analysis_count equals the number of selections that reached the
\* message since the last reset: the step that builds the message raises it
\* by exactly 1 whatever the number of CSV files, a selection that is turned
\* down (no files, a missing file type, a signature or BPID mismatch) leaves
\* it as it was, and so does every step after the message: the export, the
\* cancelled export dialog, the return of select_files.
C26_CounterCountsAnalyses ==
    /\ [](StoredCount(prefs) = analyses)
    /\ [][/\ (pc = "loop" /\ pc' = "done") =>
                StoredCount(prefs') = StoredCount(prefs) + 1
          /\ pc' \in Rejections => StoredCount(prefs') = StoredCount(prefs)
          /\ pc \in Rejections \cup {"done", "export"} =>
                StoredCount(prefs') = StoredCount(prefs)]_vars

\* after a reset a batch of two CSV files was completed, which left the
\* counter at 1, and the selection that followed was turned down
C26_Witness ==
    /\ pc = "bpid_mismatch"
    /\ "reset_invoice_analysis_counter" \in written
    /\ Len(message.non_eu) = 2
    /\ analyses = 1
    /\ StoredCount(prefs) = 1

(***************************************************************************)
(* Properties of the summary under a change of the file order              *)
(***************************************************************************)
\* the item of a line "n. item\n" of a numbered section
ItemOfLine(line) ==
    LET k == FindChar(line, " ", 1) IN SubSeq(line, k + 1, Len(line) - 1)

\* the number of lines of the section that show item
Occurrences(section, item) ==
    Cardinality({n \in 1..Len(section) : ItemOfLine(section[n]) = item})

\* the two sections hold the same multiset of items
SameItems(a, b) ==
    /\ Len(a) = Len(b)
    /\ \A n \in 1..Len(a) :
          Occurrences(a, ItemOfLine(a[n])) = Occurrences(b, ItemOfLine(a[n]))

\* the step builds the message of the files whose message is shown
RebuildStep ==
    /\ pc = "loop"
    /\ pc' = "done"
    /\ message # NoMessage
    /\ Len(message'.files) = Len(message.files)
    /\ ToSet(message'.files) = ToSet(message.files)

\* C25: when the files of a completed batch are selected again in any order,
\* the message of the second batch has the weight, the invoice reference
\* line, the Box 5 line and the numbered EU section of the first, and its
\* non-EU section holds the same multiset of items.
C25_OrderIndependent ==
    [][RebuildStep =>
          /\ message'.weight = message.weight
          /\ message'.reference = message.reference
          /\ message'.box5 = message.box5
          /\ message'.eu = message.eu
          /\ SameItems(message'.non_eu, message.non_eu)]_vars

\* a second batch of the same files was completed: the files have different
\* invoice and Box 5 references, several non-EU items, and EU items that this
\* batch did not meet in the sorted order
C25_Witness ==
    /\ pc = "done"
    /\ analyses = 2
    /\ Len(csv_files) > 1
    /\ message.files = [i \in 1..Len(csv_files) |-> csv_files[i].name]
    /\ Contains(message.reference, ",")
    /\ Contains(message.box5, ",")
    /\ Len(message.eu) > 1
    /\ message.eu # Numbered(all_eu_items)
    /\ Len(message.non_eu) > 1
    /\ message.weight > 0

====
